---------------------------- MODULE Spec2Model ----------------------------
(***************************************************************************)
(* A model of the mdigger/apns provider library.                           *)
(*                                                                         *)
(* The repository holds several generations of the binary-protocol send    *)
(* engine side by side.  Each one is modelled by a specification of its    *)
(* own over its own group of variables:                                    *)
(*                                                                         *)
(*   SpecDial    the dial/backoff loops: Conn.reconnect (conn.go:366),     *)
(*               Conn.Connect (conn.go:683), Client.Connect (client.go:111)*)
(*   SpecConn    the connection with a close flag: Conn (conn.go:569-725)  *)
(*               and its earlier form apnsConn (conn.go:11-136), driven by *)
(*               the client and the notification queue of section 4 of the *)
(*               specification                                             *)
(*                                                                         *)
(* A specification leaves the variables of the other groups at their       *)
(* initial values.  Durations are in seconds.                              *)
(***************************************************************************)
EXTENDS Integers, Sequences, FiniteSets, TLC

VARIABLES
    (* --- SpecDial: one run of a dial loop --- *)
    dialLoop,        \* which loop runs: "reconnect", "Conn_Connect", "Client_Connect"
    dialPc,          \* "dial", "sleep", "connected", "returned", "panic"
    startDuration,   \* the loop's local startDuration
    dialErr,         \* outcome of the last Dial: "nil", "net", "eof", "other"
    dialFails        \* number of failed dials of this run so far

varsDial == <<dialLoop, dialPc, startDuration, dialErr, dialFails>>

VARIABLES
    (* --- SpecConn: Conn / apnsConn, its reader tasks, its callers --- *)
    connVariant,     \* "Conn" (conn.go:582) or "apnsConn" (conn.go:14)
    tlsConn,         \* conn.Conn: 0 is nil, else the number of the installed stream
    nStreams,        \* streams dialled so far; stream s has the reader task s
    streamClosed,    \* the streams on which Close() has been called
    isConnected,     \* conn.isConnected
    isClosed,        \* conn.isClosed
    closeCalled,     \* Conn.Close() has run
    pc,              \* position of each task: reader s (1..), the send task (0)
    rerr,            \* reader s: the err its Read / parseAPNSError produced
    queue,           \* notificationQueue: ids waiting to be sent
    cache,           \* notificationQueue: ids sent, kept for replay
    counter,         \* notificationQueue: last id assigned
    clientClosed,    \* Client.isClosed
    isSending,       \* Client.isSending
    closing,         \* Client.Close: "no", "wait" / "nowait" (flag set, stream open), "done"
    sendLog          \* Client.Send calls: how many, and of the last one: was the
                     \* client closed, the result, the number of ids enqueued

(* The earlier Client (client.go): it owns the stream itself and delays the  *)
(* send by a timer.  It uses the connection and queue variables above for  *)
(* client.conn, client.isConnected and client.queue, and these two:        *)
VARIABLES
    timer,           \* client.timer: "nil", "armed", or "off" (stopped or fired)
    Delay            \* client.Delay

varsTimer == <<timer, Delay>>

(* The channel-based Conn (conn.go, Connect / Send / waitLoop / sendBuffer / *)
(* handleError).  It uses tlsConn, cache, counter and timer (frameTimer)     *)
(* above, and:                                                              *)
VARIABLES
    sendMessageChan, \* the goroutines blocked in `sendMessageChan <- msg`, each with
                     \* the messages it still has to hand over
    cacheBuffer,     \* connection.cacheBuffer: messages in the frame buffer
    frameBuffer,     \* connection.frameBuffer: frames waiting for the next write
    mu,              \* connection.mu: "free" or "leaked" (locked and never unlocked)
    held,            \* the message waitLoop holds while it waits for mu
    now,             \* the clock, in periods of sendMessageLifeTime
    cleanupDue,      \* the cleanup ticker has a tick waiting
    fault,           \* the panic that ended the process, or "none"
    wire             \* the messages written to a stream: their ids and sources

varsEngine == <<sendMessageChan, cacheBuffer, frameBuffer, mu, held, now, cleanupDue,
                fault, wire>>

varsConn == <<connVariant, tlsConn, nStreams, streamClosed, isConnected, isClosed,
              closeCalled, pc, rerr, queue, cache, counter,
              clientClosed, isSending, closing, sendLog>>

(* The byte form of one message: sendMessage.Byte (message.go) and the frame  *)
(* waitLoop puts around it (conn.go).                                       *)
VARIABLES
    smsg,            \* the sendMessage waitLoop took from the channel; its id is
                     \* a uint32, kept as its four bytes
    data,            \* data := msg.Byte(), a sequence of bytes
    framed,          \* what waitLoop appended to connection.frameBuffer for it
    idCounter,       \* connection.counter, a uint32, kept as its four bytes
    bufLen,          \* connection.frameBuffer.Len()
    step             \* where waitLoop is with the message

varsFrame == <<smsg, data, framed, idCounter, bufLen, step>>

(* Single calls: Feedback (feedback.go), GetCertificateInfo and Support, and  *)
(* Notification.request (notification.go).                                  *)
VARIABLES
    wireIn,          \* the bytes the feedback server sends before it closes
    readPos,         \* how many of them conn.Read has given out
    header,          \* Feedback's header buffer of 6 bytes
    tokenSize,       \* the size of tokenBuffer while its Read is due, else -1
    fbResult,        \* Feedback's result so far
    returned,        \* whether Feedback has returned, and its error
    cert,            \* a certificate: its bundle id and its topics extension
    info,            \* what GetCertificateInfo made of it, and Support's answers
    ntf,             \* a Notification's Expiration, and time.Now()
    apnsExpiration   \* the apns-expiration header of the request built for it

varsCalls == <<wireIn, readPos, header, tokenSize, fbResult, returned, cert, info, ntf,
               apnsExpiration>>

varsMain == <<varsDial, varsConn, varsTimer, varsEngine>>

(* ProviderToken (feedback.go): the cached JWT and the callers of JWT().     *)
VARIABLES
    pt,              \* the ProviderToken: jwt, created, and privateKey: 0 is nil,
                     \* else the number of the key installed
    calls,           \* each caller of JWT(): where it is, its locals jwt and created,
                     \* and what its last call returned
    wall             \* time.Now(), in minutes

varsToken == <<pt, calls, wall>>

(* A ProviderToken written out and read back (feedback.go): WritePEM and     *)
(* ProviderTokenFromPEM, MarshalJSON and UnmarshalJSON.                     *)
VARIABLES
    original,        \* the identifiers of the token that is written out
    stored,          \* what was written: a PEM block or a JSON object, or none yet
    restored         \* the identifiers of the token read back, or none yet

varsPersist == <<original, stored, restored>>

(* ClientsPool (pool.go): workers that take notifications from a channel.     *)
VARIABLES
    pool,            \* the pool: whether responses is nil, whether the channel
                     \* notifications is closed, and the panic that ended the process
    pushing,         \* ClientsPool.Push: the calls made so far, and the notifications
                     \* the running call has still to send on the channel
    accepted,        \* every (notification, token) pair handed to Push so far
    workers,         \* each worker: where it is, its n, and the id and err of c.Push(n)
    responses        \* the Responses received from the channel responses, in order

varsPool == <<pool, pushing, accepted, workers, responses>>

(* The standalone replay cache and frame buffer: messageCache              *)
(* (messageCache.go), frameBuffer.Add (frameBuffer.go) and the pool of byte  *)
(* buffers behind sendMessage.Byte (pool.go, message.go).                   *)
VARIABLES
    list,            \* cache.list: the cached messages, each with its id and created
    destination,     \* destination.list of MoveTo
    cleaner,         \* the goroutine of newMessageCache: "none", "waiting" for the
                     \* ticker, "tick" (a tick is due), "returned"
    moving,          \* cache.MoveTo: "idle", "clear" (copied, Clear is due), "done"
    clock,           \* time.Now() for the cache
    nAdded,          \* how many messages Add has been called with
    bufs,            \* every bytes.Buffer made by getBuffer: its backing array
    free,            \* the buffers that are in the sync.Pool
    adders,          \* each goroutine in frameBuffer.Add: where it is, its msg, and
                     \* data: the buffer whose array it shares, and its length
    fbmu,            \* fb.mu: 0 is free, else the goroutine that holds it
    fbLen,           \* fb.buf.Len()
    wrote            \* every data that Add has written to fb.buf, in order

varsBuffer == <<list, destination, cleaner, moving, clock, nAdded, bufs, free, adders,
                fbmu, fbLen, wrote>>

varsAux == <<varsFrame, varsToken, varsPersist, varsPool, varsCalls, varsBuffer>>

vars == <<varsMain, varsAux>>

\* what the steps of one group leave alone: the variables of the other groups
notDial == <<varsConn, varsTimer, varsEngine, varsAux>>
notConn == <<varsDial, varsTimer, varsEngine, varsAux>>
notClient == <<varsDial, varsEngine, isClosed, closeCalled, clientClosed, isSending,
              closing, varsAux>>
notEngine == <<varsDial, connVariant, isConnected, isClosed, closeCalled, queue,
              clientClosed, isSending, closing, Delay, varsAux>>

----------------------------------------------------------------------------
(* Program constants *)

\* DurationReconnect = 10 * time.Second
DurationReconnect == 10

\* time.Minute*30, the ceiling of the reconnect delay
ThirtyMinutes == 1800

\* DurationSend = 100 * time.Millisecond, in milliseconds
DurationSend == 100

\* const maxPayloadSize = 2048
maxPayloadSize == 2048

\* conn.go 296: the largest frame buffer, in bytes
tcpFrameMax == 65535

\* the length of a payload that one length byte cannot count
LongPayload == 300

\* var JWTLifeTime = time.Minute * 55
JWTLifeTime == 55

\* the goroutines that call JWT(), and how many lifetimes the clock runs
MaxCallers == 2
MaxLifeTimes == 1

\* how many private keys are installed, one after the other
MaxKeys == 2

\* the workers of a pool, and the calls of ClientsPool.Push
MaxWorkers == 2
MaxPushes == 2

\* SpecBuffer: d of newMessageCache and the last instant of its clock, the
\* messages Add is called with, the goroutines that call frameBuffer.Add,
\* and fb.Size
CachePeriod == 2
MaxTime == 4
MaxAdds == 3
MaxAdders == 2
FrameSize == 100

\* sendMessageLifeTime = 5 * time.Minute: the unit of the clock `now`
sendMessageLifeTime == 1

(* Bounds of the model *)

\* failed dials of one run of a dial loop (SpecDial); past 180 the delay saturates
MaxDialFails == 183

\* SpecEngine: the last period of the clock, the messages Send calls make in
\* all, the sendBuffer calls the frame timer has running at a time
MaxNow == 1
MaxMessages == 2
MaxFlushers == 1

\* SpecHandover: the messages Send calls make in all
MaxHandover == 3

\* streams dialled, Send calls
MaxStreams == 2
MaxSends == 2

----------------------------------------------------------------------------
(* Helpers *)

Min(a, b) == IF a < b THEN a ELSE b

\* the kinds of error Config.Dial can return: a net.Error, io.EOF, anything else
DialErrors == {"net", "eof", "other"}

DialLoops == {"reconnect", "Conn_Connect", "Client_Connect"}

----------------------------------------------------------------------------
(* The dial loops.  Each *_AfterFail gives what the loop does after a      *)
(* failed Dial with error kind err while its delay is d: whether it sleeps *)
(* and retries or returns the error, and the delay of the next round.      *)

\* if startDuration < time.Minute*30 { startDuration += DurationReconnect }
GrowDelay(d) == IF d < ThirtyMinutes THEN d + DurationReconnect ELSE d

Conn_Connect_AfterFail_ReturnsOther(err, d) ==
    IF err = "other"
    THEN [act |-> "return", sleep |-> 0, next |-> d]
    ELSE [act |-> "retry", sleep |-> d, next |-> GrowDelay(d)]

\* Conn.Connect: every failure is logged, slept on and retried; the
\* `return err` of the default branch is commented out.
Conn_Connect_AfterFail(err, d) ==
    [act |-> "retry", sleep |-> d, next |-> GrowDelay(d)]

\* Client.Connect: the same loop in the earlier client.
Client_Connect_AfterFail(err, d) ==
    [act |-> "retry", sleep |-> d, next |-> GrowDelay(d)]

\* Conn.reconnect: a net.Error sleeps and grows the delay, io.EOF sleeps
\* without growing it, any other error is returned to the caller.
reconnect_AfterFail(err, d) ==
    CASE err = "net" -> [act |-> "retry", sleep |-> d, next |-> GrowDelay(d)]
      [] err = "eof" -> [act |-> "retry", sleep |-> d, next |-> d]
      [] OTHER       -> [act |-> "return", sleep |-> 0, next |-> d]

AfterFail(loop, err, d) ==
    CASE loop = "reconnect"      -> reconnect_AfterFail(err, d)
      [] loop = "Conn_Connect"   -> Conn_Connect_AfterFail(err, d)
      [] loop = "Client_Connect" -> Client_Connect_AfterFail(err, d)

----------------------------------------------------------------------------
(* Conn / apnsConn: a connection that reconnects by itself, its reader     *)
(* tasks (handleReads, one per dialled stream) and Close.  The sections    *)
(* the code runs under conn.mu are single steps.                           *)

Readers == 1..MaxStreams
SendTask == 0
Tasks == {SendTask} \cup Readers

\* status bytes of an error frame: 0 (no error / shutdown), 8 (invalid token)
ErrStatuses == {0, 8}

NoErr == [kind |-> "none", status |-> 0, id |-> 0]

\* what conn.Read followed by parseAPNSError can give on a stream that was not
\* closed locally: a timeout of the read deadline, another net.Error, io.EOF,
\* a bad response, or an error frame {status, id}
ReadResults ==
    {[kind |-> k, status |-> 0, id |-> 0] : k \in {"timeout", "net", "eof", "other"}}
    \cup {[kind |-> "apns", status |-> st, id |-> i] : st \in ErrStatuses, i \in 0..MaxSends}

\* notificationQueue.ResendFromId(id, exclude): the cache entries with an id
\* >= id (> id when exclude) go back to the head of the queue in their order
\* and leave the cache
ResendSelected(c, id, exclude) ==
    SelectSeq(c, LAMBDA x : IF exclude THEN x > id ELSE x >= id)

ResendKept(c, id, exclude) ==
    SelectSeq(c, LAMBDA x : ~(IF exclude THEN x > id ELSE x >= id))

\* the groups at rest: what a specification about one group gives the others
DialIdle ==
    /\ dialLoop = "reconnect"
    /\ dialPc = "dial"
    /\ startDuration = DurationReconnect
    /\ dialErr = "nil"
    /\ dialFails = 0

TimerIdle ==
    /\ timer = "nil"
    /\ Delay = DurationSend

EngineIdle ==
    /\ sendMessageChan = {}
    /\ cacheBuffer = <<>>
    /\ frameBuffer = <<>>
    /\ mu = "free"
    /\ held = <<>>
    /\ now = 0
    /\ cleanupDue = FALSE
    /\ fault = "none"
    /\ wire = {}

FrameIdle ==
    /\ smsg = [id |-> 0]
    /\ data = <<>>
    /\ framed = <<>>
    /\ idCounter = <<>>
    /\ bufLen = 0
    /\ step = "none"

\* the empty string pt.jwt starts as; time.Time{} is instant 0, before every
\* instant of the clock
NoJWT == [iat |-> 0, sig |-> 0, key |-> 0]

Callers == 1..MaxCallers

TokenIdle ==
    /\ pt = [jwt |-> NoJWT, created |-> 0, privateKey |-> 0]
    /\ calls = [c \in Callers |->
                    [pc |-> "idle", jwt |-> NoJWT, created |-> 0, key |-> 0,
                     result |-> [jwt |-> NoJWT, err |-> "none"]]]
    /\ wall = 1

PersistIdle ==
    /\ original = [teamID |-> <<>>, keyID |-> <<>>]
    /\ stored = [form |-> "none"]
    /\ restored = [err |-> "none"]

Workers == 1..MaxWorkers

\* a worker's n before it has received one
NoPair == [call |-> 0, idx |-> 0, token |-> ""]

PoolIdle ==
    /\ pool = [nilResponses |-> FALSE, closed |-> FALSE, panic |-> "none"]
    /\ pushing = [n |-> 0, rest |-> <<>>]
    /\ accepted = {}
    /\ workers = [w \in Workers |-> [pc |-> "range", n |-> NoPair, id |-> "", err |-> ""]]
    /\ responses = <<>>

\* time.Time{}: IsZero reports it, and its seconds are never asked for
ZeroTime == [zero |-> TRUE, unix |-> 0, nsec |-> 0]

CallsIdle ==
    /\ wireIn = <<>>
    /\ readPos = 0
    /\ header = <<>>
    /\ tokenSize = -1
    /\ fbResult = <<>>
    /\ returned = [done |-> FALSE, err |-> "nil"]
    /\ cert = [BundleID |-> "", hasTopics |-> FALSE, Topics |-> <<>>]
    /\ info = [state |-> "none", BundleID |-> "", Topics |-> <<>>, asked |-> {}]
    /\ ntf = [Expiration |-> ZeroTime, now |-> ZeroTime]
    /\ apnsExpiration = [built |-> FALSE, set |-> FALSE, value |-> <<>>]

BufferIdle ==
    /\ list = <<>>
    /\ destination = <<>>
    /\ cleaner = "none"
    /\ moving = "idle"
    /\ clock = 0
    /\ nAdded = 0
    /\ bufs = <<>>
    /\ free = {}
    /\ adders = <<>>
    /\ fbmu = 0
    /\ fbLen = 0
    /\ wrote = <<>>

AuxIdle ==
    /\ FrameIdle
    /\ TokenIdle
    /\ PersistIdle
    /\ PoolIdle
    /\ CallsIdle
    /\ BufferIdle

ConnIdle ==
    /\ connVariant = "Conn"
    /\ tlsConn = 0
    /\ nStreams = 0
    /\ streamClosed = {}
    /\ isConnected = FALSE
    /\ isClosed = FALSE
    /\ closeCalled = FALSE
    /\ pc = [p \in Tasks |-> IF p = SendTask THEN "idle" ELSE "none"]
    /\ rerr = [r \in Readers |-> NoErr]
    /\ queue = <<>>
    /\ cache = <<>>
    /\ counter = 0
    /\ clientClosed = FALSE
    /\ isSending = FALSE
    /\ closing = "no"
    /\ sendLog = [n |-> 0, closed |-> FALSE, result |-> "none", enq |-> 0]

\* NewConn(client): no stream yet, nothing connected, nothing closed
ConnInit ==
    /\ connVariant \in {"Conn", "apnsConn"}
    /\ tlsConn = 0
    /\ nStreams = 0
    /\ streamClosed = {}
    /\ isConnected = FALSE
    /\ isClosed = FALSE
    /\ closeCalled = FALSE
    /\ pc = [p \in Tasks |-> IF p = SendTask THEN "idle" ELSE "none"]
    /\ rerr = [r \in Readers |-> NoErr]
    /\ queue = <<>>
    /\ cache = <<>>
    /\ counter = 0
    /\ clientClosed = FALSE
    /\ isSending = FALSE
    /\ closing = "no"
    /\ sendLog = [n |-> 0, closed |-> FALSE, result |-> "none", enq |-> 0]
    /\ DialIdle
    /\ AuxIdle
    /\ TimerIdle
    /\ EngineIdle

connFlags == <<tlsConn, nStreams, streamClosed, isConnected, isClosed, closeCalled>>
queueVars == <<queue, cache, counter>>
clientVars == <<clientClosed, isSending, closing, sendLog>>

\* where a task goes when its Connect call returns nil
AfterConnect(p) == IF p = SendTask THEN "write" ELSE "exit"

(* ---- handleReads ---- *)

\* _, err := conn.Read(header); if err == nil { err = parseAPNSError(header) }
\* A stream closed locally fails the Read with a net.Error that is no timeout.
Conn_handleReads_Read(r) ==
    /\ pc[r] = "read"
    /\ \E e \in ReadResults :
         /\ r \in streamClosed => e = [kind |-> "net", status |-> 0, id |-> 0]
         /\ rerr' = [rerr EXCEPT ![r] = e]
    /\ pc' = [pc EXCEPT ![r] = "chk"]
    /\ UNCHANGED <<notConn, connVariant, connFlags,  queueVars,
                   clientVars>>

\* conn.mu.Lock(); if conn.isClosed { conn.mu.Unlock(); return }
Conn_handleReads_Closed(r) ==
    /\ pc[r] = "chk"
    /\ pc' = [pc EXCEPT ![r] = IF isClosed THEN "exit" ELSE "switch"]
    /\ rerr' = [rerr EXCEPT ![r] = IF isClosed THEN NoErr ELSE @]
    /\ UNCHANGED <<notConn, connVariant, connFlags, 
                   queueVars, clientVars>>

Conn_handleReads_Switch_ResendAlways(r) ==
    /\ pc[r] = "switch"
    /\ LET e == rerr[r] IN
       IF e.kind = "timeout"
       THEN /\ isConnected' = FALSE
            /\ pc' = [pc EXCEPT ![r] = "exitTimeout"]
            /\ UNCHANGED <<queue, cache>>
       ELSE IF e.kind = "apns"
       THEN /\ queue' = ResendSelected(cache, e.id, e.status > 0) \o queue
            /\ cache' = ResendKept(cache, e.id, e.status > 0)
            /\ pc' = [pc EXCEPT ![r] = "connect"]
            /\ UNCHANGED isConnected
       ELSE /\ pc' = [pc EXCEPT ![r] = "connect"]
            /\ UNCHANGED <<isConnected, queue, cache>>
    /\ rerr' = [rerr EXCEPT ![r] = IF rerr[r].kind = "timeout" THEN NoErr ELSE @]
    /\ UNCHANGED <<notConn, connVariant, tlsConn, nStreams, streamClosed, isClosed,
                   closeCalled, counter, clientVars>>

\* switch err.(type): a timeout clears isConnected and returns; an error frame
\* with an id resends from that id; everything but the timeout goes on to
\* conn.Connect(), and err is live until that call
Conn_handleReads_Switch(r) ==
    /\ pc[r] = "switch"
    /\ LET e == rerr[r] IN
       IF e.kind = "timeout"
       THEN /\ isConnected' = FALSE
            /\ pc' = [pc EXCEPT ![r] = "exitTimeout"]
            /\ UNCHANGED <<queue, cache>>
       ELSE IF e.kind = "apns" /\ e.id # 0
       THEN /\ queue' = ResendSelected(cache, e.id, e.status > 0) \o queue
            /\ cache' = ResendKept(cache, e.id, e.status > 0)
            /\ pc' = [pc EXCEPT ![r] = "connect"]
            /\ UNCHANGED isConnected
       ELSE /\ pc' = [pc EXCEPT ![r] = "connect"]
            /\ UNCHANGED <<isConnected, queue, cache>>
    /\ rerr' = [rerr EXCEPT ![r] = IF rerr[r].kind = "timeout" THEN NoErr ELSE @]
    /\ UNCHANGED <<notConn, connVariant, tlsConn, nStreams, streamClosed, isClosed,
                   closeCalled, counter, clientVars>>

(* ---- Connect ---- *)

\* Conn.Connect, head: close the installed stream, clear isConnected, and
\* return at once when the connection is closed.
\* apnsConn.Connect, head: the same, but isClosed is reset and nothing returns.
Conn_Connect_Enter(p) ==
    /\ pc[p] = "connect"
    /\ streamClosed' = IF tlsConn # 0 THEN streamClosed \cup {tlsConn} ELSE streamClosed
    /\ isConnected' = FALSE
    /\ IF connVariant = "Conn"
       THEN /\ pc' = [pc EXCEPT ![p] = IF isClosed THEN AfterConnect(p)
                                       ELSE "dial"]
            /\ UNCHANGED isClosed
       ELSE /\ pc' = [pc EXCEPT ![p] = "dial"]
            /\ isClosed' = FALSE
    /\ rerr' = [r \in Readers |-> IF r = p THEN NoErr ELSE rerr[r]]
    /\ UNCHANGED <<notConn, connVariant, tlsConn, nStreams, closeCalled, queueVars,
                   clientVars>>

\* Dial succeeded: conn.Conn = tlsConn; conn.isConnected = true;
\* go conn.handleReads(); return nil
Conn_Connect_DialOk(p) ==
    /\ pc[p] = "dial"
    /\ nStreams < MaxStreams
    /\ nStreams' = nStreams + 1
    /\ tlsConn' = nStreams + 1
    /\ isConnected' = TRUE
    /\ pc' = [pc EXCEPT ![p] = AfterConnect(p),
                        ![nStreams + 1] = "read"]
    /\ UNCHANGED <<notConn, connVariant, streamClosed, isClosed, closeCalled, rerr,
                   queueVars, clientVars>>

\* Dial failed: log, then time.Sleep(startDuration)
Conn_Connect_DialFail(p, err) ==
    /\ pc[p] = "dial"
    /\ pc' = [pc EXCEPT ![p] =
                IF Conn_Connect_AfterFail(err, DurationReconnect).act = "retry"
                THEN "sleep" ELSE "panic"]
    /\ UNCHANGED <<notConn, connVariant, connFlags, rerr, queueVars,
                   clientVars>>

\* the sleep is over: the next Dial follows
Conn_Connect_Wake(p) ==
    /\ pc[p] = "sleep"
    /\ pc' = [pc EXCEPT ![p] = "dial"]
    /\ UNCHANGED <<notConn, connVariant, connFlags, rerr, 
                   queueVars, clientVars>>

(* ---- Close ---- *)

\* Conn.Close: close the installed stream; isConnected = false; isClosed = true
Conn_Close ==
    /\ streamClosed' = IF tlsConn # 0 THEN streamClosed \cup {tlsConn} ELSE streamClosed
    /\ isConnected' = FALSE
    /\ isClosed' = TRUE
    /\ closeCalled' = TRUE
    /\ UNCHANGED <<notConn, connVariant, tlsConn, nStreams>>

(* ---- the client of section 4.J of the specification ---- *)

\* Client.Send: reject when closed; else queue.Add gives the notification the
\* next id and appends it, and the send task is started unless it runs
Client4J_Send_NoClosedCheck ==
    /\ sendLog.n < MaxSends
    /\ counter' = counter + 1
    /\ queue' = Append(queue, counter + 1)
    /\ sendLog' = [n |-> sendLog.n + 1, closed |-> clientClosed,
                   result |-> "nil", enq |-> 1]
    /\ IF isSending
       THEN UNCHANGED <<isSending, pc>>
       ELSE /\ isSending' = TRUE
            /\ pc' = [pc EXCEPT ![SendTask] = "ensure"]
    /\ UNCHANGED <<notConn, connVariant, connFlags, rerr,  cache,
                   clientClosed, closing>>

Client4J_Send ==
    /\ sendLog.n < MaxSends
    /\ IF clientClosed
       THEN /\ sendLog' = [n |-> sendLog.n + 1, closed |-> TRUE,
                           result |-> "ErrClientIsClosed", enq |-> 0]
            /\ UNCHANGED <<counter, queue, isSending, pc>>
       ELSE /\ counter' = counter + 1
            /\ queue' = Append(queue, counter + 1)
            /\ sendLog' = [n |-> sendLog.n + 1, closed |-> FALSE,
                           result |-> "nil", enq |-> 1]
            /\ IF isSending
               THEN UNCHANGED <<isSending, pc>>
               ELSE /\ isSending' = TRUE
                    /\ pc' = [pc EXCEPT ![SendTask] = "ensure"]
    /\ UNCHANGED <<notConn, connVariant, connFlags, rerr,  cache,
                   clientClosed, closing>>

\* the send task ensures the connection: Connect when not connected
Client4J_send_Ensure ==
    /\ pc[SendTask] = "ensure"
    /\ pc' = [pc EXCEPT ![SendTask] = IF isConnected THEN "write" ELSE "connect"]
    /\ UNCHANGED <<notConn, connVariant, connFlags, rerr, 
                   queueVars, clientVars>>

\* the send task takes the oldest notification (queue.Get moves it to the
\* cache) and writes it; on a drained queue it clears isSending and ends; on
\* a write error it goes back to connect
Client4J_send_Write ==
    /\ pc[SendTask] = "write"
    /\ IF queue = <<>>
       THEN /\ isSending' = FALSE
            /\ pc' = [pc EXCEPT ![SendTask] = "idle"]
            /\ UNCHANGED <<queue, cache>>
       ELSE IF tlsConn # 0 /\ tlsConn \notin streamClosed
       THEN /\ cache' = Append(cache, Head(queue))
            /\ queue' = Tail(queue)
            /\ UNCHANGED <<isSending, pc>>
       ELSE /\ pc' = [pc EXCEPT ![SendTask] = "connect"]
            /\ UNCHANGED <<queue, cache, isSending>>
    /\ UNCHANGED <<notConn, connVariant, connFlags, rerr,  counter,
                   clientClosed, closing, sendLog>>

\* Client.Close(wait): isClosed = true, so that new Send calls are rejected
Client4J_Close_Flag(wait) ==
    /\ closing = "no"
    /\ clientClosed' = TRUE
    /\ closing' = IF wait THEN "wait" ELSE "nowait"
    /\ UNCHANGED <<notConn, connVariant, connFlags, pc, rerr, 
                   queueVars, isSending, sendLog>>

\* Client.Close(wait): with wait, once the queue is empty; then conn.Close()
Client4J_Close_Stream ==
    /\ closing \in {"wait", "nowait"}
    /\ closing = "wait" => queue = <<>>
    /\ Conn_Close
    /\ closing' = "done"
    /\ UNCHANGED <<pc, rerr,  queueVars, clientClosed,
                   isSending, sendLog>>

ConnNext ==
    \/ \E r \in Readers : Conn_handleReads_Read(r)
    \/ \E r \in Readers : Conn_handleReads_Closed(r)
    \/ \E r \in Readers : Conn_handleReads_Switch(r)
    \/ \E p \in Tasks : Conn_Connect_Enter(p)
    \/ \E p \in Tasks : Conn_Connect_DialOk(p)
    \/ \E p \in Tasks, err \in DialErrors : Conn_Connect_DialFail(p, err)
    \/ \E p \in Tasks : Conn_Connect_Wake(p)
    \/ Client4J_Send
    \/ Client4J_send_Ensure
    \/ Client4J_send_Write
    \/ \E wait \in BOOLEAN : Client4J_Close_Flag(wait)
    \/ Client4J_Close_Stream

----------------------------------------------------------------------------
(* The earlier Client (client.go): Send arms a timer that starts send();   *)
(* send() connects when needed and writes the whole queue; the reader of   *)
(* each stream closes client.conn on any error and reconnects unless the   *)
(* error is a timeout.  Only Send holds client.mu.                         *)

\* the send() goroutines the timer (or Send, with Delay = 0) can have started
ClientSenders == {0 - i : i \in 0..(MaxSends - 1)}
ClientTasks == ClientSenders \cup Readers

\* NewClient(config): no stream, an empty queue, Delay = DurationSend; the
\* caller may set Delay to 0
ClientInit ==
    /\ connVariant = "Client"
    /\ tlsConn = 0
    /\ nStreams = 0
    /\ streamClosed = {}
    /\ isConnected = FALSE
    /\ isClosed = FALSE
    /\ closeCalled = FALSE
    /\ pc = [p \in ClientTasks |-> IF p \in ClientSenders THEN "idle" ELSE "none"]
    /\ rerr = [r \in Readers |-> NoErr]
    /\ queue = <<>>
    /\ cache = <<>>
    /\ counter = 0
    /\ clientClosed = FALSE
    /\ isSending = FALSE
    /\ closing = "no"
    /\ sendLog = [n |-> 0, closed |-> FALSE, result |-> "none", enq |-> 0]
    /\ timer = "nil"
    /\ Delay \in {0, DurationSend}
    /\ DialIdle
    /\ AuxIdle
    /\ EngineIdle

\* if client.timer != nil { client.timer.Stop() }
TimerStopped(t) == IF t = "nil" THEN "nil" ELSE "off"

\* go client.send(): a goroutine that is not running takes the call
FreeSender == CHOOSE s \in ClientSenders : pc[s] = "idle"

\* Client.Send, under client.mu: stop the timer; AddNotification (an invalid
\* notification returns its error here); then start send() at once when
\* Delay is 0, else arm the timer
Client_Send(valid) ==
    /\ sendLog.n < MaxSends
    /\ IF valid
       THEN /\ counter' = counter + 1
            /\ queue' = Append(queue, counter + 1)
            /\ sendLog' = [n |-> sendLog.n + 1, closed |-> FALSE, result |-> "nil",
                           enq |-> 1]
            /\ IF Delay = 0
               THEN /\ timer' = TimerStopped(timer)
                    /\ pc' = [pc EXCEPT ![FreeSender] = "start"]
               ELSE /\ timer' = "armed"
                    /\ UNCHANGED pc
       ELSE /\ sendLog' = [n |-> sendLog.n + 1, closed |-> FALSE, result |-> "error",
                           enq |-> 0]
            /\ timer' = TimerStopped(timer)
            /\ UNCHANGED <<counter, queue, pc>>
    /\ UNCHANGED <<notClient, connVariant, tlsConn, nStreams, streamClosed, isConnected,
                   rerr, cache, Delay>>

\* the timer set by time.AfterFunc(client.Delay, client.send) fires
Client_timer_Fire ==
    /\ timer = "armed"
    /\ timer' = "off"
    /\ pc' = [pc EXCEPT ![FreeSender] = "start"]
    /\ UNCHANGED <<notClient, connVariant, tlsConn, nStreams, streamClosed, isConnected,
                   rerr, queueVars, sendLog, Delay>>

\* send: if !client.queue.IsHasToSend() { return }
Client_send_Start(s) ==
    /\ pc[s] = "start"
    /\ pc' = [pc EXCEPT ![s] = IF queue = <<>> THEN "idle" ELSE "loop"]
    /\ UNCHANGED <<notClient, connVariant, tlsConn, nStreams, streamClosed, isConnected,
                   rerr, queueVars, sendLog, varsTimer>>

\* send: if client.conn == nil || !client.isConnected { client.Connect() }
Client_send_Loop(s) ==
    /\ pc[s] = "loop"
    /\ pc' = [pc EXCEPT ![s] = IF tlsConn = 0 \/ ~isConnected THEN "connect"
                               ELSE "write"]
    /\ UNCHANGED <<notClient, connVariant, tlsConn, nStreams, streamClosed, isConnected,
                   rerr, queueVars, sendLog, varsTimer>>

\* send: client.queue.WriteTo(client.conn) writes all that waits and moves it
\* to the cache; on an error isConnected is cleared and the loop goes round
Client_send_WriteTo(s) ==
    /\ pc[s] = "write"
    /\ IF queue = <<>> \/ tlsConn \notin streamClosed
       THEN /\ cache' = cache \o queue
            /\ queue' = <<>>
            /\ pc' = [pc EXCEPT ![s] = "idle"]
            /\ UNCHANGED isConnected
       ELSE /\ isConnected' = FALSE
            /\ pc' = [pc EXCEPT ![s] = "loop"]
            /\ UNCHANGED <<queue, cache>>
    /\ UNCHANGED <<notClient, connVariant, tlsConn, nStreams, streamClosed, rerr,
                   counter, sendLog, varsTimer>>

\* Client.Connect, head: isConnected = false; client.conn.Close()
Client_Connect_Enter(p) ==
    /\ pc[p] = "connect"
    /\ isConnected' = FALSE
    /\ streamClosed' = IF tlsConn # 0 THEN streamClosed \cup {tlsConn} ELSE streamClosed
    /\ pc' = [pc EXCEPT ![p] = "dial"]
    /\ UNCHANGED <<notClient, connVariant, tlsConn, nStreams, rerr, queueVars, sendLog,
                   varsTimer>>

\* Dial succeeded: client.conn = conn; isConnected = true; the reader of the
\* new stream is started; return nil
Client_Connect_DialOk(p) ==
    /\ pc[p] = "dial"
    /\ nStreams < MaxStreams
    /\ nStreams' = nStreams + 1
    /\ tlsConn' = nStreams + 1
    /\ isConnected' = TRUE
    /\ pc' = [pc EXCEPT ![p] = IF p \in ClientSenders THEN "write" ELSE "exit",
                        ![nStreams + 1] = "read"]
    /\ UNCHANGED <<notClient, connVariant, streamClosed, rerr, queueVars, sendLog,
                   varsTimer>>

\* Dial failed: log, then time.Sleep(startDuration)
Client_Connect_DialFail(p, err) ==
    /\ pc[p] = "dial"
    /\ pc' = [pc EXCEPT ![p] =
                IF Client_Connect_AfterFail(err, DurationReconnect).act = "retry"
                THEN "sleep" ELSE "panic"]
    /\ UNCHANGED <<notClient, connVariant, tlsConn, nStreams, streamClosed, isConnected,
                   rerr, queueVars, sendLog, varsTimer>>

Client_Connect_Wake(p) ==
    /\ pc[p] = "sleep"
    /\ pc' = [pc EXCEPT ![p] = "dial"]
    /\ UNCHANGED <<notClient, connVariant, tlsConn, nStreams, streamClosed, isConnected,
                   rerr, queueVars, sendLog, varsTimer>>

\* handleReads: _, err := client.conn.Read(header) returns
Client_handleReads_Read(r) ==
    /\ pc[r] = "read"
    /\ \E e \in ReadResults :
         /\ r \in streamClosed => e = [kind |-> "net", status |-> 0, id |-> 0]
         /\ rerr' = [rerr EXCEPT ![r] = e]
    /\ pc' = [pc EXCEPT ![r] = "close"]
    /\ UNCHANGED <<notClient, connVariant, tlsConn, nStreams, streamClosed, isConnected,
                   queueVars, sendLog, varsTimer>>

\* handleReads: client.conn.Close(); client.isConnected = false
\* (client.conn is the stream installed now, not the one that was read)
Client_handleReads_Close(r) ==
    /\ pc[r] = "close"
    /\ streamClosed' = streamClosed \cup {tlsConn}
    /\ isConnected' = FALSE
    /\ pc' = [pc EXCEPT ![r] = "switch"]
    /\ UNCHANGED <<notClient, connVariant, tlsConn, nStreams, rerr, queueVars, sendLog,
                   varsTimer>>

Client_handleReads_Switch_ReconnectAlways(r) ==
    /\ pc[r] = "switch"
    /\ LET e == rerr[r] IN
       IF e.kind = "apns" /\ e.id # 0
       THEN /\ queue' = ResendSelected(cache, e.id, e.status > 0) \o queue
            /\ cache' = ResendKept(cache, e.id, e.status > 0)
            /\ pc' = [pc EXCEPT ![r] = "connect"]
       ELSE /\ pc' = [pc EXCEPT ![r] = "connect"]
            /\ UNCHANGED <<queue, cache>>
    /\ rerr' = [rerr EXCEPT ![r] = NoErr]
    /\ UNCHANGED <<notClient, connVariant, tlsConn, nStreams, streamClosed, isConnected,
                   counter, sendLog, varsTimer>>

\* handleReads, switch err.(type): a timeout returns; an error frame with an
\* id resends from it; everything but the timeout goes on to client.Connect()
Client_handleReads_Switch(r) ==
    /\ pc[r] = "switch"
    /\ LET e == rerr[r] IN
       IF e.kind = "timeout"
       THEN /\ pc' = [pc EXCEPT ![r] = "exitTimeout"]
            /\ UNCHANGED <<queue, cache>>
       ELSE IF e.kind = "apns" /\ e.id # 0
       THEN /\ queue' = ResendSelected(cache, e.id, e.status > 0) \o queue
            /\ cache' = ResendKept(cache, e.id, e.status > 0)
            /\ pc' = [pc EXCEPT ![r] = "connect"]
       ELSE /\ pc' = [pc EXCEPT ![r] = "connect"]
            /\ UNCHANGED <<queue, cache>>
    /\ rerr' = [rerr EXCEPT ![r] = NoErr]
    /\ UNCHANGED <<notClient, connVariant, tlsConn, nStreams, streamClosed, isConnected,
                   counter, sendLog, varsTimer>>

ClientNext ==
    \/ \E valid \in BOOLEAN : Client_Send(valid)
    \/ Client_timer_Fire
    \/ \E s \in ClientSenders : Client_send_Start(s)
    \/ \E s \in ClientSenders : Client_send_Loop(s)
    \/ \E s \in ClientSenders : Client_send_WriteTo(s)
    \/ \E p \in ClientTasks : Client_Connect_Enter(p)
    \/ \E p \in ClientTasks : Client_Connect_DialOk(p)
    \/ \E p \in ClientTasks, err \in DialErrors : Client_Connect_DialFail(p, err)
    \/ \E p \in ClientTasks : Client_Connect_Wake(p)
    \/ \E r \in Readers : Client_handleReads_Read(r)
    \/ \E r \in Readers : Client_handleReads_Close(r)
    \/ \E r \in Readers : Client_handleReads_Switch(r)

----------------------------------------------------------------------------
(* The channel-based Conn (conn.go 276-567, message.go).  Send hands each  *)
(* message to waitLoop over an unbuffered channel; waitLoop gives it an id  *)
(* and puts it into the frame buffer; the frame timer starts sendBuffer,    *)
(* which writes the buffer and moves cacheBuffer to the cache; the reader   *)
(* of a stream passes what it reads to handleError, which resends from the  *)
(* cache and reconnects.  A section run under connection.mu is one step.    *)
(* With the few messages of this model the frame buffer stays far below     *)
(* tcpFrameMax, so the flush before an append is never taken.               *)

WaitLoopTask == 0
Flushers == {0 - i : i \in 1..MaxFlushers}
EngineTasks == {WaitLoopTask} \cup Flushers \cup Readers

\* Message.Payload as Send sees it: nil, an empty map, a map json.Marshal
\* rejects, or a map whose JSON has len bytes (the two lengths at the limit)
Payloads ==
    {[kind |-> k, len |-> 0] : k \in {"nil", "empty", "unmarshalable"}}
    \cup {[kind |-> "map", len |-> n] : n \in {maxPayloadSize, maxPayloadSize + 1}}

\* the token lists of a Send call: "t" is a token of 32 bytes, "x" is not;
\* a call makes two messages, or one behind a token that is skipped
TokenLists == {<<"t", "t">>, <<"x", "t">>}

\* Message.Expiration, in periods
Expirations == {0, 1}

toSendMessage_SizeOffByOne(payload) ==
    IF payload.kind \in {"nil", "empty"} THEN "ErrPayloadEmpty"
    ELSE IF payload.kind = "unmarshalable" THEN "marshal error"
    ELSE IF payload.len >= maxPayloadSize THEN "ErrPayloadTooLarge"
    ELSE "nil"

\* Message.toSendMessage: the error it returns, or "nil"
toSendMessage(payload) ==
    IF payload.kind \in {"nil", "empty"} THEN "ErrPayloadEmpty"
    ELSE IF payload.kind = "unmarshalable" THEN "marshal error"
    ELSE IF payload.len > maxPayloadSize THEN "ErrPayloadTooLarge"
    ELSE "nil"

\* sendMessage.IsExpired, for a clock reading unixNow
IsExpired(expiration, unixNow) ==
    IF expiration = 0 THEN FALSE ELSE unixNow <= expiration

\* The clock counts whole periods, so the time between an instant of period a
\* and a later one of period b is b - a periods or, rounded down, one less.
\* Against a deadline the clock therefore reads now or now + 1; the age of
\* something created in period c reads now - c or now - c - 1.
ClockReadings == {now, now + 1}

TokenMessages_NoSkip(call, tokens, expiration) ==
    [j \in 1..Len(tokens) |->
        [id |-> 0, src |-> <<call, j>>, exp |-> expiration, created |-> now]]

\* the messages Send makes for the tokens of 32 bytes, in the order of tokens
\* (sendmsg.WithToken(token): no id yet); src names the call and the place of
\* the message among those of the call
TokenMessages(call, tokens, expiration) ==
    LET idx == SelectSeq([i \in 1..Len(tokens) |-> i], LAMBDA i : tokens[i] = "t")
    IN  [j \in 1..Len(idx) |->
            [id |-> 0, src |-> <<call, j>>, exp |-> expiration, created |-> now]]

\* Connect(config) returned a connection: the first stream is installed, its
\* reader and waitLoop run
EngineInit ==
    /\ connVariant = "Connect"
    /\ tlsConn = 1
    /\ nStreams = 1
    /\ streamClosed = {}
    /\ isConnected = FALSE
    /\ isClosed = FALSE
    /\ closeCalled = FALSE
    /\ pc = [p \in EngineTasks |->
                IF p = WaitLoopTask THEN "select"
                ELSE IF p = 1 THEN "read"
                ELSE IF p \in Readers THEN "none" ELSE "idle"]
    /\ rerr = [r \in Readers |-> NoErr]
    /\ queue = <<>>
    /\ cache = <<>>
    /\ counter = 0
    /\ clientClosed = FALSE
    /\ isSending = FALSE
    /\ closing = "no"
    /\ sendLog = [n |-> 0, closed |-> FALSE, result |-> "none", enq |-> 0, total |-> 0,
                  payload |-> [kind |-> "nil", len |-> 0], tokens |-> <<>>]
    /\ timer = "nil"
    /\ Delay = DurationSend
    /\ sendMessageChan = {}
    /\ cacheBuffer = <<>>
    /\ frameBuffer = <<>>
    /\ mu = "free"
    /\ held = <<>>
    /\ now = 0
    /\ cleanupDue = FALSE
    /\ fault = "none"
    /\ wire = {}
    /\ DialIdle
    /\ AuxIdle

\* panic(f): the process ends; nothing of its state is left but the fault
panic(f) ==
    /\ fault' = f
    /\ tlsConn' = 0
    /\ nStreams' = 0
    /\ streamClosed' = {}
    /\ pc' = [p \in EngineTasks |-> "none"]
    /\ rerr' = [r \in Readers |-> NoErr]
    /\ cache' = <<>>
    /\ counter' = 0
    /\ sendLog' = [n |-> 0, closed |-> FALSE, result |-> "none", enq |-> 0, total |-> 0,
                   payload |-> [kind |-> "nil", len |-> 0], tokens |-> <<>>]
    /\ timer' = "nil"
    /\ sendMessageChan' = {}
    /\ cacheBuffer' = <<>>
    /\ frameBuffer' = <<>>
    /\ mu' = "free"
    /\ held' = <<>>
    /\ now' = 0
    /\ cleanupDue' = FALSE
    /\ wire' = {}
    /\ UNCHANGED notEngine

\* Conn.Send: toSendMessage once; on an error return it; else one message per
\* token of 32 bytes goes to the channel, each send blocking until waitLoop
\* takes it.  sendLog keeps the payload and the result of the last call, the
\* tokens its loop went through (none after an error), the messages it made
\* (enq) and those all calls made (total, at most limit).
Conn_Send_Within(limit, payload, tokens, expiration) ==
    /\ fault = "none"
    /\ sendLog.n < MaxSends
    /\ LET err == toSendMessage(payload)
           msgs == TokenMessages(sendLog.n + 1, tokens,
                                 IF expiration > 0 THEN now + expiration ELSE 0)
       IN  IF err # "nil"
           THEN /\ sendLog' = [sendLog EXCEPT !.n = @ + 1, !.result = err, !.enq = 0,
                                              !.payload = payload, !.tokens = <<>>]
                /\ UNCHANGED sendMessageChan
           ELSE /\ sendLog.total + Len(msgs) <= limit
                /\ sendLog' = [sendLog EXCEPT !.n = @ + 1, !.result = "nil",
                                              !.enq = Len(msgs), !.total = @ + Len(msgs),
                                              !.payload = payload, !.tokens = tokens]
                /\ sendMessageChan' =
                        IF msgs = <<>> THEN sendMessageChan
                        ELSE sendMessageChan \cup {[fresh |-> TRUE, msgs |-> msgs]}
    /\ UNCHANGED <<notEngine, tlsConn, nStreams, streamClosed, pc, rerr, cache, counter,
                   timer, cacheBuffer, frameBuffer, mu, held, now, cleanupDue, fault, wire>>

Conn_Send(payload, tokens, expiration) ==
    Conn_Send_Within(MaxMessages, payload, tokens, expiration)

\* what is left of a blocked sender once its first message is taken: a Send
\* call stamps its next message (WithToken: created = time.Now())
AfterHandover(g) ==
    LET rest == Tail(g.msgs)
    IN  IF rest = <<>> THEN {}
        ELSE IF g.fresh
        THEN {[g EXCEPT !.msgs = [rest EXCEPT ![1].created = now]]}
        ELSE {[g EXCEPT !.msgs = rest]}

\* waitLoop, case msg := <-sendMessageChan: skip the message when IsExpired;
\* give it the next id when it has none; append its frame to the frame buffer
\* and the message to cacheBuffer; set the frame timer
waitLoop_Message ==
    /\ fault = "none"
    /\ pc[WaitLoopTask] = "select"
    /\ \E g \in sendMessageChan, unixNow \in ClockReadings :
         LET msg == Head(g.msgs)
             withId == IF msg.id = 0 THEN [msg EXCEPT !.id = counter + 1] ELSE msg
         IN  /\ sendMessageChan' = (sendMessageChan \ {g}) \cup AfterHandover(g)
             /\ IF IsExpired(msg.exp, unixNow)
                THEN UNCHANGED <<pc, held, counter, frameBuffer, cacheBuffer, timer>>
                ELSE IF mu = "leaked"
                THEN /\ pc' = [pc EXCEPT ![WaitLoopTask] = "blocked"]
                     /\ held' = <<msg>>
                     /\ UNCHANGED <<counter, frameBuffer, cacheBuffer, timer>>
                ELSE /\ counter' = IF msg.id = 0 THEN counter + 1 ELSE counter
                     /\ frameBuffer' = Append(frameBuffer, withId)
                     /\ cacheBuffer' = Append(cacheBuffer, withId)
                     /\ timer' = "armed"
                     /\ UNCHANGED <<pc, held>>
    /\ UNCHANGED <<notEngine, tlsConn, nStreams, streamClosed, rerr, cache, sendLog, mu,
                   now, cleanupDue, fault, wire>>

\* time passes: the next period begins and the cleanup ticker ticks
Clock_Tick ==
    /\ fault = "none"
    /\ now < MaxNow
    /\ now' = now + 1
    /\ cleanupDue' = TRUE
    /\ UNCHANGED <<notEngine, tlsConn, nStreams, streamClosed, pc, rerr, cache, counter,
                   sendLog, timer, sendMessageChan, cacheBuffer, frameBuffer, mu, held,
                   fault, wire>>

\* waitLoop, case <-cleanup: lock; with an empty cache `break` leaves the
\* select with the mutex locked; else keep the messages younger than
\* sendMessageLifeTime and unlock
waitLoop_Cleanup ==
    /\ fault = "none"
    /\ pc[WaitLoopTask] = "select"
    /\ cleanupDue
    /\ cleanupDue' = FALSE
    /\ IF mu = "leaked"
       THEN /\ pc' = [pc EXCEPT ![WaitLoopTask] = "blocked"]
            /\ UNCHANGED <<mu, cache>>
       ELSE IF cache = <<>>
       THEN /\ mu' = "leaked"
            /\ UNCHANGED <<pc, cache>>
       ELSE /\ \E late \in {0, 1} :
                 cache' = SelectSeq(cache, LAMBDA m :
                            now - m.created - late < sendMessageLifeTime)
            /\ UNCHANGED <<pc, mu>>
    /\ UNCHANGED <<notEngine, tlsConn, nStreams, streamClosed, rerr, counter, sendLog,
                   timer, sendMessageChan, cacheBuffer, frameBuffer, held, now, fault,
                   wire>>

\* go connection.sendBuffer(): a goroutine that is not running takes the call
FreeFlusher == CHOOSE f \in Flushers : pc[f] = "idle"

\* the frame timer set by time.AfterFunc(FramingTimeout, sendBuffer) fires
frameTimer_Fire ==
    /\ fault = "none"
    /\ timer = "armed"
    /\ \E f \in Flushers : pc[f] = "idle"
    /\ timer' = "off"
    /\ pc' = [pc EXCEPT ![FreeFlusher] = "start"]
    /\ UNCHANGED <<notEngine, tlsConn, nStreams, streamClosed, rerr, cache, counter,
                   sendLog, varsEngine>>

\* the ids of the messages of a sequence
Ids(msgs) == {msgs[i].id : i \in 1..Len(msgs)}

\* what a write of the frames of msgs puts on the stream
Frames(msgs) == {[id |-> msgs[i].id, src |-> msgs[i].src] : i \in 1..Len(msgs)}

\* sendBuffer, under the mutex: stop the timer; return on an empty buffer;
\* else frameBuffer.WriteTo(conn).  A write to a stream closed here fails, a
\* write to an open one may fail too.  A failed write has sent nothing, and
\* bytes.Buffer.WriteTo drops only what was written: the buffer keeps its
\* frames; handleError(errors.New("write error")) closes the stream and goes
\* to reconnect().
sendBuffer_Write(f) ==
    /\ fault = "none"
    /\ pc[f] = "start"
    /\ mu = "free"
    /\ timer' = TimerStopped(timer)
    /\ IF frameBuffer = <<>>
       THEN /\ pc' = [pc EXCEPT ![f] = "idle"]
            /\ UNCHANGED <<frameBuffer, wire, streamClosed>>
       ELSE \E ok \in BOOLEAN :
            /\ ok => tlsConn \notin streamClosed
            /\ IF ok
               THEN /\ wire' = wire \cup Frames(frameBuffer)
                    /\ frameBuffer' = <<>>
                    /\ pc' = [pc EXCEPT ![f] = "ok"]
                    /\ UNCHANGED streamClosed
               ELSE /\ streamClosed' = streamClosed \cup {tlsConn}
                    /\ pc' = [pc EXCEPT ![f] = "dial"]
                    /\ UNCHANGED <<frameBuffer, wire>>
    /\ UNCHANGED <<notEngine, tlsConn, nStreams, rerr, cache, counter,
                   sendLog, sendMessageChan, cacheBuffer, mu, held, now, cleanupDue,
                   fault>>

\* sendBuffer after a good write, under the mutex:
\* cache = append(cache, cacheBuffer...); cacheBuffer is reset
sendBuffer_Cache(f) ==
    /\ fault = "none"
    /\ pc[f] = "ok"
    /\ mu = "free"
    /\ cache' = cache \o cacheBuffer
    /\ cacheBuffer' = <<>>
    /\ pc' = [pc EXCEPT ![f] = "idle"]
    /\ UNCHANGED <<notEngine, tlsConn, nStreams, streamClosed, rerr, counter, sendLog,
                   timer, sendMessageChan, frameBuffer, mu, held, now, cleanupDue,
                   fault, wire>>

\* sendBuffer after handleError returned: a goroutine sends the messages of
\* cacheBuffer to the channel again; cacheBuffer is reset
sendBuffer_Resend(f) ==
    /\ fault = "none"
    /\ pc[f] = "resend"
    /\ sendMessageChan' =
          IF cacheBuffer = <<>> THEN sendMessageChan
          ELSE sendMessageChan \cup {[fresh |-> FALSE, msgs |-> cacheBuffer]}
    /\ cacheBuffer' = <<>>
    /\ pc' = [pc EXCEPT ![f] = "idle"]
    /\ UNCHANGED <<notEngine, tlsConn, nStreams, streamClosed, rerr, cache, counter,
                   sendLog, timer, frameBuffer, mu, held, now, cleanupDue, fault, wire>>

\* what conn.Read gives the reader: as ReadResults, the error frames naming
\* 0 or the id of a message that was written
EngineReadResults ==
    {[kind |-> k, status |-> 0, id |-> 0] : k \in {"timeout", "net", "eof", "other"}}
    \cup {[kind |-> "apns", status |-> st, id |-> i] :
            st \in ErrStatuses, i \in {0} \cup {w.id : w \in wire}}

\* handleError: the index (from 0) where the resend starts: that of the first
\* cache entry with the id, or 0 when there is none, plus 1 when status > 0
handleError_index(c, id, status) ==
    LET hits == {i \in 1..Len(c) : c[i].id = id}
        first == IF hits = {} THEN 0
                 ELSE (CHOOSE i \in hits : \A j \in hits : i <= j) - 1
    IN  IF status > 0 THEN first + 1 ELSE first

\* handleReads: connection.conn.Read(header) returns and its result goes to
\* handleError(err): close connection.conn; return on a timeout; on an error
\* frame with an id resend cache[index:] from a new goroutine and clear the
\* cache (cache[index:] panics when index > len(cache)); then reconnect().
\* A stream closed here fails the Read with a net.Error that is no timeout.
\* rerr[r] keeps the error frame of the apnsError branch until handleError
\* returns.
handleReads(r) ==
    /\ fault = "none"
    /\ pc[r] = "read"
    /\ \E e \in EngineReadResults :
        LET index == handleError_index(cache, e.id, e.status)
            resend == SubSeq(cache, index + 1, Len(cache))
        IN  /\ r \in streamClosed => e = [kind |-> "net", status |-> 0, id |-> 0]
            /\ IF e.kind = "apns" /\ e.id > 0 /\ index > Len(cache)
               THEN panic("slice bounds out of range")
               ELSE /\ streamClosed' = streamClosed \cup {tlsConn}
                    /\ rerr' = [rerr EXCEPT ![r] = IF e.kind = "apns" /\ e.id > 0
                                                    THEN e ELSE NoErr]
                    /\ IF e.kind = "timeout"
                       THEN /\ pc' = [pc EXCEPT ![r] = "exitTimeout"]
                            /\ UNCHANGED <<cache, sendMessageChan>>
                       ELSE IF e.kind = "apns" /\ e.id > 0
                       THEN /\ sendMessageChan' =
                                    IF resend = <<>> THEN sendMessageChan
                                    ELSE sendMessageChan
                                            \cup {[fresh |-> FALSE, msgs |-> resend]}
                            /\ cache' = <<>>
                            /\ pc' = [pc EXCEPT ![r] = "dial"]
                       ELSE /\ pc' = [pc EXCEPT ![r] = "dial"]
                            /\ UNCHANGED <<cache, sendMessageChan>>
                    /\ UNCHANGED <<notEngine, tlsConn, nStreams, counter, sendLog, timer,
                                   cacheBuffer, frameBuffer, mu, held, now, cleanupDue,
                                   wire, fault>>

\* reconnect: Dial succeeded: connection.conn = conn; go handleReads();
\* return nil
reconnect_DialOk(p) ==
    /\ fault = "none"
    /\ pc[p] = "dial"
    /\ nStreams < MaxStreams
    /\ nStreams' = nStreams + 1
    /\ tlsConn' = nStreams + 1
    /\ pc' = [pc EXCEPT ![p] = IF p \in Flushers THEN "resend" ELSE "exit",
                        ![nStreams + 1] = "read"]
    /\ rerr' = [r \in Readers |-> IF r = p THEN NoErr ELSE rerr[r]]
    /\ UNCHANGED <<notEngine, streamClosed, cache, counter, sendLog, timer,
                   varsEngine>>

\* reconnect: Dial failed: after a net.Error or io.EOF sleep and dial again;
\* any other error is returned and handleError panics
reconnect_DialFail(p, err) ==
    /\ fault = "none"
    /\ pc[p] = "dial"
    /\ IF reconnect_AfterFail(err, DurationReconnect).act = "retry"
       THEN UNCHANGED vars
       ELSE panic("Non network error connecting")

EngineNext ==
    \/ \E payload \in Payloads, tokens \in TokenLists, expiration \in Expirations :
            Conn_Send(payload, tokens, expiration)
    \/ waitLoop_Message
    \/ Clock_Tick
    \/ waitLoop_Cleanup
    \/ frameTimer_Fire
    \/ \E f \in Flushers : sendBuffer_Write(f)
    \/ \E f \in Flushers : sendBuffer_Cache(f)
    \/ \E f \in Flushers : sendBuffer_Resend(f)
    \/ \E r \in Readers : handleReads(r)
    \/ \E p \in Flushers \cup Readers : reconnect_DialOk(p)
    \/ \E p \in Flushers \cup Readers, err \in DialErrors : reconnect_DialFail(p, err)

\* Send calls, the way of their messages to the stream and the reader of the
\* first stream, with no tick of the clock and no redial, for one message more
HandoverNext ==
    \/ \E payload \in Payloads, tokens \in TokenLists, expiration \in Expirations :
            Conn_Send_Within(MaxHandover, payload, tokens, expiration)
    \/ waitLoop_Message
    \/ frameTimer_Fire
    \/ \E f \in Flushers : sendBuffer_Write(f)
    \/ \E f \in Flushers : sendBuffer_Cache(f)
    \/ \E r \in Readers : handleReads(r)

----------------------------------------------------------------------------
(* The dial loops on their own (SpecDial) *)

\* var startDuration = DurationReconnect; the first Dial follows
DialInit ==
    /\ dialLoop \in DialLoops
    /\ dialPc = "dial"
    /\ startDuration = DurationReconnect
    /\ dialErr = "nil"
    /\ dialFails = 0
    /\ ConnIdle
    /\ AuxIdle
    /\ TimerIdle
    /\ EngineIdle

\* Dial succeeds: the stream is installed and the loop returns nil
DialOk ==
    /\ dialPc = "dial"
    /\ dialPc' = "connected"
    /\ dialErr' = "nil"
    /\ UNCHANGED <<notDial, dialLoop, startDuration, dialFails>>

\* Dial fails with err: the loop logs "Waiting ..." and sleeps, or returns err
DialFail(err) ==
    /\ dialPc = "dial"
    /\ dialFails < MaxDialFails
    /\ dialErr' = err
    /\ dialFails' = dialFails + 1
    /\ dialPc' = IF AfterFail(dialLoop, err, startDuration).act = "retry"
                 THEN "sleep" ELSE "returned"
    /\ UNCHANGED <<notDial, dialLoop, startDuration>>

\* time.Sleep(startDuration) is over: the delay grows, the next Dial follows
DialWake ==
    /\ dialPc = "sleep"
    /\ startDuration' = AfterFail(dialLoop, dialErr, startDuration).next
    /\ dialPc' = "dial"
    /\ UNCHANGED <<notDial, dialLoop, dialErr, dialFails>>

\* the caller of a dial loop that returned an error panics
\* (handleError: panic("Non network error connecting"),
\*  handleReads / send: panic("unknown network error"))
DialCallerPanics ==
    /\ dialPc = "returned"
    /\ dialPc' = "panic"
    /\ UNCHANGED <<notDial, dialLoop, startDuration, dialErr, dialFails>>

DialNext ==
    \/ DialOk
    \/ \E err \in DialErrors : DialFail(err)
    \/ DialWake
    \/ DialCallerPanics

----------------------------------------------------------------------------
(* The byte form of a message (message.go, sendMessage.Byte) and its frame  *)
(* (conn.go, waitLoop).  A byte is a number in 0..255.                      *)

\* binary.Write(buf, binary.BigEndian, v) for an unsigned v of w bytes
BigEndian(v, w) == [i \in 1..w |-> (v \div (256 ^ (w - i))) % 256]

\* the unsigned number a sequence of bytes is the big-endian form of
RECURSIVE FromBigEndian(_)
FromBigEndian(b) ==
    IF b = <<>> THEN 0 ELSE 256 * FromBigEndian(SubSeq(b, 1, Len(b) - 1)) + b[Len(b)]

\* one item as Byte writes it: the item number in one byte, the declared
\* length in two, then the value
Item(number, declared, value) == <<number>> \o BigEndian(declared, 2) \o value

\* sendMessage.Byte: token, payload, then id, expiration and priority when
\* they are set.  id and expiration are uint32, priority is a uint8: its
\* item declares four bytes and carries one.
Byte(m) ==
    Item(1, 32, m.token)
        \o Item(2, Len(m.payload), m.payload)
        \o (IF m.id # BigEndian(0, 4) THEN Item(3, 4, m.id) ELSE <<>>)
        \o (IF m.expiration # 0 THEN Item(4, 4, BigEndian(m.expiration, 4)) ELSE <<>>)
        \o (IF m.priority = 5 \/ m.priority = 10
                THEN Item(5, 4, BigEndian(m.priority, 1)) ELSE <<>>)

\* the items a sequence of bytes holds when it is read by the declared
\* lengths; bytes that do not make a whole item are given as item 0
RECURSIVE Items(_)
Items(b) ==
    IF b = <<>> THEN <<>>
    ELSE IF Len(b) < 3 \/ Len(b) < 3 + FromBigEndian(SubSeq(b, 2, 3))
        THEN <<[item |-> 0, value |-> b]>>
        ELSE LET n == FromBigEndian(SubSeq(b, 2, 3))
             IN  <<[item |-> b[1], value |-> SubSeq(b, 4, 3 + n)]>>
                    \o Items(SubSeq(b, 4 + n, Len(b)))

\* the value of item k among items, or the given default if there is none
ItemValue(items, k, default) ==
    IF \E i \in 1..Len(items) : items[i].item = k
        THEN items[CHOOSE i \in 1..Len(items) : items[i].item = k].value
        ELSE default

\* counter++ on a uint32: the four bytes of the next number, 0 after 2^32 - 1
Increment(b) ==
    IF b[4] < 255 THEN [b EXCEPT ![4] = b[4] + 1]
    ELSE IF b[3] < 255 THEN [b EXCEPT ![3] = b[3] + 1, ![4] = 0]
    ELSE IF b[2] < 255 THEN [b EXCEPT ![2] = b[2] + 1, ![3] = 0, ![4] = 0]
    ELSE IF b[1] < 255 THEN [b EXCEPT ![1] = b[1] + 1, ![2] = 0, ![3] = 0, ![4] = 0]
    ELSE <<0, 0, 0, 0>>

\* the messages waitLoop may take from the channel: a new one (id 0) or one
\* sent again with its id; tokens of 32 bytes; a payload of two bytes and one
\* longer than one length byte can count; priority as toSendMessage leaves
\* it.  The counter has given out no id, some, or all of them; the frame
\* buffer is empty or holds earlier frames up to near tcpFrameMax bytes.
FrameInit ==
    /\ smsg \in [id : {BigEndian(0, 4), BigEndian(258, 4)},
                 token : {[i \in 1..32 |-> 171], [i \in 1..32 |-> i]},
                 payload : {[i \in 1..LongPayload |-> 97], <<123, 125>>},
                 expiration : {0, 1, 1478433600},
                 priority : {0, 5, 10}]
    /\ data = <<>>
    /\ framed = <<>>
    /\ idCounter \in {BigEndian(0, 4), BigEndian(258, 4), <<127, 255, 255, 254>>,
                      <<255, 255, 255, 255>>}
    /\ bufLen \in {0} \cup {tcpFrameMax - n : n \in {45, 50, 350}}
    /\ step = "id"
    /\ DialIdle
    /\ ConnIdle
    /\ TimerIdle
    /\ EngineIdle
    /\ BufferIdle
    /\ TokenIdle
    /\ PersistIdle
    /\ PoolIdle
    /\ CallsIdle

\* conn.go 491-496: if msg.id == 0 { counter++; msg.id = counter }
waitLoop_AssignId ==
    /\ step = "id"
    /\ IF smsg.id = BigEndian(0, 4)
       THEN /\ idCounter' = Increment(idCounter)
            /\ smsg' = [smsg EXCEPT !.id = Increment(idCounter)]
       ELSE UNCHANGED <<idCounter, smsg>>
    /\ step' = "byte"
    /\ UNCHANGED <<data, framed, bufLen, varsMain, varsBuffer, varsToken, varsPersist, varsPool, varsCalls>>

\* conn.go 498: data := msg.Byte()
waitLoop_Byte ==
    /\ step = "byte"
    /\ data = <<>>
    /\ data' = Byte(smsg)
    /\ step' = "full"
    /\ UNCHANGED <<smsg, framed, idCounter, bufLen, varsMain, varsBuffer, varsToken, varsPersist,
                   varsPool, varsCalls>>

\* conn.go 499-502: if frameBuffer.Len()+len(data) > tcpFrameMax { sendBuffer() }.
\* sendBuffer (conn.go 539-567) writes the buffer to the stream: a good write
\* empties it, a failed one has sent nothing and leaves it as it was.
waitLoop_Full ==
    /\ step = "full"
    /\ IF bufLen + Len(data) > tcpFrameMax
       THEN \E ok \in BOOLEAN : bufLen' = IF ok THEN 0 ELSE bufLen
       ELSE UNCHANGED bufLen
    /\ step' = "frame"
    /\ UNCHANGED <<smsg, data, framed, idCounter, varsMain, varsBuffer, varsToken, varsPersist,
                   varsPool, varsCalls>>

\* conn.go 505-507: command 2, the length of data in four bytes, data
waitLoop_Frame ==
    /\ step = "frame"
    /\ framed = <<>>
    /\ framed' = <<2>> \o BigEndian(Len(data), 4) \o data
    /\ bufLen' = bufLen + 5 + Len(data)
    /\ step' = "done"
    /\ UNCHANGED <<smsg, data, idCounter, varsMain, varsBuffer, varsToken, varsPersist, varsPool, varsCalls>>

FrameNext ==
    \/ waitLoop_AssignId
    \/ waitLoop_Byte
    \/ waitLoop_Full
    \/ waitLoop_Frame

----------------------------------------------------------------------------
(* ProviderToken.JWT and createJWT (feedback.go 227-272).  pt.mu guards     *)
(* pt.jwt and pt.created: what a caller does under RLock or Lock is one     *)
(* step.                                                                    *)

\* the instants the clock passes: the start of each lifetime and one minute
\* on, so that ages of exactly JWTLifeTime and of one minute more occur
Instants == {k * JWTLifeTime + e : k \in 0..MaxLifeTimes, e \in {1, 2}}

TokenInit ==
    /\ TokenIdle
    /\ DialIdle
    /\ ConnIdle
    /\ TimerIdle
    /\ EngineIdle
    /\ BufferIdle
    /\ FrameIdle
    /\ PersistIdle
    /\ PoolIdle
    /\ CallsIdle

\* time passes
Tick ==
    /\ \E t \in Instants : t > wall
    /\ wall' = CHOOSE t \in Instants : t > wall /\ \A u \in Instants : u > wall => t <= u
    /\ UNCHANGED <<pt, calls, varsMain, varsBuffer, varsFrame, varsPersist, varsPool, varsCalls>>

\* SetPrivateKey / LoadPrivateKey: under Lock the cache is emptied and the
\* next key installed
SetPrivateKey ==
    /\ pt.privateKey < MaxKeys
    /\ pt' = [jwt |-> NoJWT, created |-> 0, privateKey |-> pt.privateKey + 1]
    /\ UNCHANGED <<calls, wall, varsMain, varsBuffer, varsFrame, varsPersist, varsPool, varsCalls>>

\* JWT, lines 228-231: under RLock, jwt := pt.jwt and created := pt.created.
\* calls[c].key notes the key that was installed when the call began.
JWT_Read(c) ==
    /\ calls[c].pc = "idle"
    /\ calls' = [calls EXCEPT ![c].pc = "check",
                              ![c].jwt = pt.jwt,
                              ![c].created = pt.created,
                              ![c].key = pt.privateKey]
    /\ UNCHANGED <<pt, wall, varsMain, varsBuffer, varsFrame, varsPersist, varsPool, varsCalls>>

JWT_Check_AtLeast(c) ==
    /\ calls[c].pc = "check"
    /\ calls' = IF calls[c].jwt = NoJWT \/ wall - calls[c].created >= JWTLifeTime
                    THEN [calls EXCEPT ![c].pc = "create"]
                    ELSE [calls EXCEPT ![c].pc = "idle", ![c].result = [jwt |-> calls[c].jwt, err |-> "nil"]]
    /\ UNCHANGED <<pt, wall, varsMain, varsBuffer, varsFrame, varsPersist, varsPool, varsCalls>>

\* JWT, lines 232-235: jwt == "" || time.Since(created) > JWTLifeTime sends
\* the caller to createJWT, else the jwt it read is returned
JWT_Check(c) ==
    /\ calls[c].pc = "check"
    /\ calls' = IF calls[c].jwt = NoJWT \/ wall - calls[c].created > JWTLifeTime
                    THEN [calls EXCEPT ![c].pc = "create"]
                    ELSE [calls EXCEPT ![c].pc = "idle", ![c].result = [jwt |-> calls[c].jwt, err |-> "nil"]]
    /\ UNCHANGED <<pt, wall, varsMain, varsBuffer, varsFrame, varsPersist, varsPool, varsCalls>>

\* createJWT, lines 240-265: without a key ErrPTBadPrivateKey; else
\* created := time.Now() and the token is built and signed
createJWT_Sign(c) ==
    /\ calls[c].pc = "create"
    /\ calls' = IF pt.privateKey # 0
                    THEN [calls EXCEPT ![c].pc = "store",
                                       ![c].created = wall,
                                       ![c].jwt = [iat |-> wall, sig |-> c,
                                                   key |-> pt.privateKey]]
                    ELSE [calls EXCEPT ![c].pc = "idle",
                                       ![c].result = [jwt |-> NoJWT, err |-> "ErrPTBadPrivateKey"]]
    /\ UNCHANGED <<pt, wall, varsMain, varsBuffer, varsFrame, varsPersist, varsPool, varsCalls>>

createJWT_Store_JwtOnly(c) ==
    /\ calls[c].pc = "store"
    /\ pt' = [pt EXCEPT !.jwt = calls[c].jwt]
    /\ calls' = [calls EXCEPT ![c].pc = "idle", ![c].result = [jwt |-> calls[c].jwt, err |-> "nil"]]
    /\ UNCHANGED <<wall, varsMain, varsBuffer, varsFrame, varsPersist, varsPool, varsCalls>>

\* createJWT, lines 266-271: under Lock, pt.jwt = jwt and pt.created = created;
\* the new token is returned
createJWT_Store(c) ==
    /\ calls[c].pc = "store"
    /\ pt' = [pt EXCEPT !.jwt = calls[c].jwt, !.created = calls[c].created]
    /\ calls' = [calls EXCEPT ![c].pc = "idle", ![c].result = [jwt |-> calls[c].jwt, err |-> "nil"]]
    /\ UNCHANGED <<wall, varsMain, varsBuffer, varsFrame, varsPersist, varsPool, varsCalls>>

TokenNext ==
    \/ Tick
    \/ SetPrivateKey
    \/ \E c \in Callers : JWT_Read(c)
    \/ \E c \in Callers : JWT_Check(c)
    \/ \E c \in Callers : createJWT_Sign(c)
    \/ \E c \in Callers : createJWT_Store(c)

----------------------------------------------------------------------------
(* Writing a ProviderToken out and reading it back (feedback.go 181-207,    *)
(* 277-311).  An identifier is a sequence of ten characters.                *)

\* NewProviderToken(teamID, keyID): each must be ten characters long
NewProviderToken(teamID, keyID) ==
    IF Len(teamID) # 10 THEN [err |-> "ErrPTBadTeamID"]
    ELSE IF Len(keyID) # 10 THEN [err |-> "ErrPTBadKeyID"]
    ELSE [err |-> "nil", teamID |-> teamID, keyID |-> keyID]

\* a ProviderToken made by NewProviderToken, its identifiers ending in one
\* of eight characters
PersistInit ==
    /\ \E a \in 48..55, b \in 48..55 :
            LET new == NewProviderToken([i \in 1..10 |-> IF i < 10 THEN 84 ELSE a],
                                        [i \in 1..10 |-> IF i < 10 THEN 75 ELSE b])
            IN  original = [teamID |-> new.teamID, keyID |-> new.keyID]
    /\ stored = [form |-> "none"]
    /\ restored = [err |-> "none"]
    /\ DialIdle
    /\ ConnIdle
    /\ TimerIdle
    /\ EngineIdle
    /\ BufferIdle
    /\ FrameIdle
    /\ TokenIdle
    /\ PoolIdle
    /\ CallsIdle

\* WritePEM: a block of type APNS TOKEN with the headers teamID and keyID
WritePEM ==
    /\ stored.form = "none"
    /\ stored' = [form |-> "pem", Type |-> "APNS TOKEN",
                  Headers |-> [teamID |-> original.teamID, keyID |-> original.keyID]]
    /\ UNCHANGED <<original, restored, varsMain, varsBuffer, varsFrame, varsToken, varsPool, varsCalls>>

\* MarshalJSON: an object with the members teamId and keyId
MarshalJSON ==
    /\ stored.form = "none"
    /\ stored' = [form |-> "json", TeamID |-> original.teamID, KeyID |-> original.keyID]
    /\ UNCHANGED <<original, restored, varsMain, varsBuffer, varsFrame, varsToken, varsPool, varsCalls>>

\* ProviderTokenFromPEM: NewProviderToken(block.Headers["keyID"],
\* block.Headers["teamID"])
ProviderTokenFromPEM ==
    /\ stored.form = "pem"
    /\ restored.err = "none"
    /\ restored' = IF stored.Type # "APNS TOKEN" THEN [err |-> "ErrPTBad"]
                   ELSE NewProviderToken(stored.Headers.keyID, stored.Headers.teamID)
    /\ UNCHANGED <<original, stored, varsMain, varsBuffer, varsFrame, varsToken, varsPool, varsCalls>>

\* UnmarshalJSON: NewProviderToken(jsonPT.KeyID, jsonPT.TeamID)
UnmarshalJSON ==
    /\ stored.form = "json"
    /\ restored.err = "none"
    /\ restored' = NewProviderToken(stored.KeyID, stored.TeamID)
    /\ UNCHANGED <<original, stored, varsMain, varsBuffer, varsFrame, varsToken, varsPool, varsCalls>>

PersistNext ==
    \/ WritePEM
    \/ MarshalJSON
    \/ ProviderTokenFromPEM
    \/ UnmarshalJSON

----------------------------------------------------------------------------
(* ClientsPool (pool.go 78-108).  notifications is an unbuffered channel: a *)
(* send and the receive that takes it are one step.  A panic ends the       *)
(* process.                                                                 *)

\* c.Push(n): the apns-id of the request, and nil or the error of the
\* response.  The id is written as the pair the request was made for.
Client_Push(n) ==
    {[id |-> <<"apns-id", n.call, n.idx>>, err |-> e] : e \in {"nil", "BadDeviceToken"}}

\* c.Pool(workers, responses), responses nil or not
PoolInit ==
    /\ pool \in [nilResponses : BOOLEAN, closed : {FALSE}, panic : {"none"}]
    /\ pushing = [n |-> 0, rest |-> <<>>]
    /\ accepted = {}
    /\ workers = [w \in Workers |-> [pc |-> "range", n |-> NoPair, id |-> "", err |-> ""]]
    /\ responses = <<>>
    /\ DialIdle
    /\ ConnIdle
    /\ TimerIdle
    /\ EngineIdle
    /\ BufferIdle
    /\ FrameIdle
    /\ TokenIdle
    /\ PersistIdle
    /\ CallsIdle

\* a panic ends the process: its goroutines and what they held are gone
PoolPanic(p) ==
    /\ pool' = [pool EXCEPT !.panic = p]
    /\ pushing' = [n |-> 0, rest |-> <<>>]
    /\ accepted' = {}
    /\ workers' = [w \in Workers |-> [pc |-> "done", n |-> NoPair, id |-> "", err |-> ""]]
    /\ responses' = <<>>
    /\ UNCHANGED <<varsMain, varsBuffer, varsFrame, varsToken, varsPersist, varsCalls>>

\* ClientsPool.Push is called with a list of tokens, in which a token may
\* occur twice: the loop over the tokens starts
ClientsPool_Push(tokens) ==
    /\ pool.panic = "none"
    /\ pushing.rest = <<>>
    /\ pushing.n < MaxPushes
    /\ LET pairs == [i \in 1..Len(tokens) |->
                        [call |-> pushing.n + 1, idx |-> i, token |-> tokens[i]]]
       IN  /\ pushing' = [n |-> pushing.n + 1, rest |-> pairs]
           /\ accepted' = accepted \cup {pairs[i] : i \in 1..Len(pairs)}
    /\ UNCHANGED <<pool, workers, responses, varsMain, varsBuffer, varsFrame, varsToken, varsPersist, varsCalls>>

Push_Send_IgnoresClose(w) ==
    /\ pool.panic = "none"
    /\ pushing.rest # <<>>
    /\ workers[w].pc = "range"
    /\ workers' = [workers EXCEPT ![w] = [pc |-> "push", n |-> Head(pushing.rest),
                                          id |-> "", err |-> ""]]
    /\ pushing' = [pushing EXCEPT !.rest = Tail(pushing.rest)]
    /\ UNCHANGED <<pool, accepted, responses, varsMain, varsBuffer, varsFrame, varsToken, varsPersist, varsCalls>>

\* p.notifications <- n meets a worker's `for n := range notifications`
Push_Send(w) ==
    /\ pool.panic = "none"
    /\ ~pool.closed
    /\ pushing.rest # <<>>
    /\ workers[w].pc = "range"
    /\ workers' = [workers EXCEPT ![w] = [pc |-> "push", n |-> Head(pushing.rest),
                                          id |-> "", err |-> ""]]
    /\ pushing' = [pushing EXCEPT !.rest = Tail(pushing.rest)]
    /\ UNCHANGED <<pool, accepted, responses, varsMain, varsBuffer, varsFrame, varsToken, varsPersist, varsCalls>>

\* p.notifications <- n on the closed channel: panic
Push_SendClosed ==
    /\ pool.panic = "none"
    /\ pool.closed
    /\ pushing.rest # <<>>
    /\ PoolPanic("send on closed channel")

Worker_Push_NoResponse(w) ==
    /\ pool.panic = "none"
    /\ workers[w].pc = "push"
    /\ \E r \in Client_Push(workers[w].n) :
            workers' = [workers EXCEPT ![w] =
                            [pc |-> "range", n |-> NoPair, id |-> "", err |-> ""]]
    /\ UNCHANGED <<pool, pushing, accepted, responses,
                   varsMain, varsBuffer, varsFrame, varsToken, varsPersist, varsCalls>>

\* id, err := c.Push(n); with responses nil the worker goes back to the range
Worker_Push(w) ==
    /\ pool.panic = "none"
    /\ workers[w].pc = "push"
    /\ \E r \in Client_Push(workers[w].n) :
            workers' = [workers EXCEPT ![w] =
                            IF pool.nilResponses
                                THEN [pc |-> "range", n |-> NoPair, id |-> "", err |-> ""]
                                ELSE [workers[w] EXCEPT !.id = r.id, !.err = r.err,
                                                        !.pc = "respond"]]
    /\ UNCHANGED <<pool, pushing, accepted, responses,
                   varsMain, varsBuffer, varsFrame, varsToken, varsPersist, varsCalls>>

\* responses <- Response{n.Token, id, err}, received by the reader of responses
Worker_Respond(w) ==
    /\ pool.panic = "none"
    /\ workers[w].pc = "respond"
    /\ responses' = Append(responses, [pair |-> <<workers[w].n.call, workers[w].n.idx>>,
                                       Token |-> workers[w].n.token,
                                       ID |-> workers[w].id,
                                       Error |-> workers[w].err])
    /\ workers' = [workers EXCEPT ![w] = [pc |-> "range", n |-> NoPair, id |-> "", err |-> ""]]
    /\ UNCHANGED <<pool, pushing, accepted, varsMain, varsBuffer, varsFrame, varsToken, varsPersist, varsCalls>>

\* the range over the closed channel ends, and with it the worker
Worker_Exit(w) ==
    /\ pool.panic = "none"
    /\ pool.closed
    /\ workers[w].pc = "range"
    /\ workers' = [workers EXCEPT ![w].pc = "done"]
    /\ UNCHANGED <<pool, pushing, accepted, responses,
                   varsMain, varsBuffer, varsFrame, varsToken, varsPersist, varsCalls>>

\* ClientsPool.Close: close(p.notifications); closing it again is a panic
ClientsPool_Close ==
    /\ pool.panic = "none"
    /\ IF pool.closed
          THEN PoolPanic("close of closed channel")
          ELSE /\ pool' = [pool EXCEPT !.closed = TRUE]
               /\ UNCHANGED <<pushing, accepted, workers, responses,
                              varsMain, varsBuffer, varsFrame, varsToken, varsPersist, varsCalls>>

PoolNext ==
    \/ \E tokens \in {<<"a", "b">>, <<"a", "a", "b">>} : ClientsPool_Push(tokens)
    \/ \E w \in Workers : Push_Send(w)
    \/ Push_SendClosed
    \/ \E w \in Workers : Worker_Push(w)
    \/ \E w \in Workers : Worker_Respond(w)
    \/ \E w \in Workers : Worker_Exit(w)
    \/ ClientsPool_Close

----------------------------------------------------------------------------
(* Single calls: Feedback (feedback.go 12-54), GetCertificateInfo and        *)
(* CertificateInfo.Support, Notification.request (notification.go).         *)

\* what conn.Read(buf) can return for a buffer of k bytes: an error other
\* than EOF; nothing for an empty buffer; EOF when the server has closed
\* and all was read; else from one byte up to what the buffer holds and
\* the stream still has
conn_Read(k) ==
    {[n |-> 0, err |-> "reset"]}
        \cup IF k = 0 THEN {[n |-> 0, err |-> "nil"]}
             ELSE IF readPos = Len(wireIn) THEN {[n |-> 0, err |-> "EOF"]}
             ELSE {[n |-> j, err |-> "nil"] : j \in 1..k} \ {[n |-> j, err |-> "nil"] :
                        j \in (Len(wireIn) - readPos + 1)..k}

\* the records a stream of bytes holds: timestamp in four bytes, the length
\* of the token in two, the token
RECURSIVE Records(_)
Records(b) ==
    IF Len(b) < 6 \/ Len(b) < 6 + FromBigEndian(SubSeq(b, 5, 6)) THEN <<>>
    ELSE LET n == FromBigEndian(SubSeq(b, 5, 6))
         IN  <<[Timestamp |-> FromBigEndian(SubSeq(b, 1, 4)), Token |-> SubSeq(b, 7, 6 + n)]>>
                \o Records(SubSeq(b, 7 + n, Len(b)))

\* strconv.FormatInt(i, 10): the decimal digits, after a sign when negative
RECURSIVE FormatInt(_)
FormatInt(i) ==
    IF i < 0 THEN <<"-">> \o FormatInt(0 - i)
    ELSE IF i < 10 THEN SubSeq(<<"0", "1", "2", "3", "4", "5", "6", "7", "8", "9">>, i + 1, i + 1)
    ELSE FormatInt(i \div 10) \o FormatInt(i % 10)

\* CertificateInfo.Support: with no topics the bundle id alone, else the
\* topics of the list
Support(i, topic) ==
    IF Len(i.Topics) = 0 THEN topic = i.BundleID
    ELSE \E k \in 1..Len(i.Topics) : i.Topics[k] = topic

\* one call of one of them.  Feedback: the server sends up to two records,
\* with tokens of one byte or two, and closes.  GetCertificateInfo: a
\* certificate with a bundle id, with or without the topics extension.
\* request: a notification with no Expiration, or one before, at or after
\* time.Now().
CallsInit ==
    /\ \/ /\ wireIn \in {<<>>, <<0, 0, 0, 1, 0, 2, 1, 2>>, <<0, 0, 0, 2, 0, 1, 3>>,
                         <<0, 0, 0, 2, 0, 1, 3, 0, 0, 0, 1, 0, 1, 2>>}
          /\ header = <<0, 0, 0, 0, 0, 0>>
          /\ cert = [BundleID |-> "", hasTopics |-> FALSE, Topics |-> <<>>]
          /\ ntf = [Expiration |-> ZeroTime, now |-> ZeroTime]
       \/ /\ wireIn = <<>>
          /\ header = <<>>
          /\ cert \in [BundleID : {"a", "b"}, hasTopics : {TRUE},
                       Topics : UNION {[1..k -> {"a", "a.voip", "b"}] : k \in 0..2}]
                    \cup [BundleID : {"a", "b"}, hasTopics : {FALSE}, Topics : {<<>>}]
          /\ ntf = [Expiration |-> ZeroTime, now |-> ZeroTime]
       \/ /\ wireIn = <<>>
          /\ header = <<>>
          /\ cert = [BundleID |-> "", hasTopics |-> FALSE, Topics |-> <<>>]
          /\ \E unix \in {999999999, 1478433600} :
                ntf \in [Expiration : {ZeroTime}
                                \cup [zero : {FALSE},
                                      unix : {0, unix - 1, unix, unix + 86400},
                                      nsec : {0, 500, 999}],
                         now : {[zero |-> FALSE, unix |-> unix, nsec |-> 500]}]
    /\ readPos = 0
    /\ tokenSize = -1
    /\ fbResult = <<>>
    /\ returned = [done |-> FALSE, err |-> "nil"]
    /\ info = [state |-> "none", BundleID |-> "", Topics |-> <<>>, asked |-> {}]
    /\ apnsExpiration = [built |-> FALSE, set |-> FALSE, value |-> <<>>]
    /\ DialIdle
    /\ ConnIdle
    /\ TimerIdle
    /\ EngineIdle
    /\ BufferIdle
    /\ FrameIdle
    /\ TokenIdle
    /\ PersistIdle
    /\ PoolIdle

\* feedback.go 31-36: conn.Read(header); on an error return the result, with
\* io.EOF turned into nil.  The count of bytes read is dropped: the bytes
\* of header that were not read stay as they were.
Feedback_ReadHeader ==
    /\ Len(header) = 6
    /\ ~returned.done
    /\ tokenSize = -1
    /\ \E r \in conn_Read(6) :
        IF r.err # "nil"
        THEN /\ returned' = [done |-> TRUE, err |-> IF r.err = "EOF" THEN "nil" ELSE r.err]
             /\ UNCHANGED <<readPos, header, tokenSize>>
        ELSE LET read == SubSeq(wireIn, readPos + 1, readPos + r.n) \o SubSeq(header, r.n + 1, 6)
             IN  /\ header' = read
                 /\ readPos' = readPos + r.n
                 /\ tokenSize' = FromBigEndian(SubSeq(read, 5, 6))
                 /\ UNCHANGED returned
    /\ UNCHANGED <<wireIn, fbResult, cert, info, ntf, apnsExpiration, varsMain, varsBuffer, varsFrame,
                   varsToken, varsPersist, varsPool>>

\* feedback.go 37-51: tokenBuffer of tokenSize bytes; conn.Read(tokenBuffer),
\* its count dropped as well; the record of header[0:4] and tokenBuffer is
\* appended to the result
Feedback_ReadToken ==
    /\ ~returned.done
    /\ tokenSize >= 0
    /\ \E r \in conn_Read(tokenSize) :
        IF r.err # "nil"
        THEN /\ returned' = [done |-> TRUE, err |-> IF r.err = "EOF" THEN "nil" ELSE r.err]
             /\ UNCHANGED <<readPos, tokenSize, fbResult>>
        ELSE /\ fbResult' = Append(fbResult,
                    [Timestamp |-> FromBigEndian(SubSeq(header, 1, 4)),
                     Token |-> SubSeq(wireIn, readPos + 1, readPos + r.n)
                                    \o [i \in 1..(tokenSize - r.n) |-> 0]])
             /\ readPos' = readPos + r.n
             /\ tokenSize' = -1
             /\ UNCHANGED returned
    /\ UNCHANGED <<wireIn, header, cert, info, ntf, apnsExpiration, varsMain, varsBuffer, varsFrame,
                   varsToken, varsPersist, varsPool>>

\* GetCertificateInfo without the test of the topics against the bundle id
GetCertificateInfo_NoPanic ==
    /\ cert.BundleID # ""
    /\ info.state = "none"
    /\ info' = [state |-> "returned", BundleID |-> cert.BundleID,
                Topics |-> cert.Topics, asked |-> {}]
    /\ UNCHANGED <<wireIn, readPos, header, tokenSize, fbResult, returned, cert, ntf,
                   apnsExpiration, varsMain, varsBuffer, varsFrame, varsToken, varsPersist, varsPool>>

\* GetCertificateInfo: BundleID from the subject; with a topics extension
\* the topics, and a panic when they do not support the bundle id
GetCertificateInfo ==
    /\ cert.BundleID # ""
    /\ info.state = "none"
    /\ info' = IF cert.hasTopics /\ ~Support(cert, cert.BundleID)
               THEN [info EXCEPT !.state = "panic"]
               ELSE [state |-> "returned", BundleID |-> cert.BundleID,
                     Topics |-> cert.Topics, asked |-> {}]
    /\ UNCHANGED <<wireIn, readPos, header, tokenSize, fbResult, returned, cert, ntf,
                   apnsExpiration, varsMain, varsBuffer, varsFrame, varsToken, varsPersist, varsPool>>

\* info.Support(topic), for a topic not asked about before
CertificateInfo_Support(topic) ==
    /\ info.state = "returned"
    /\ \A q \in info.asked : q.topic # topic
    /\ info' = [info EXCEPT !.asked = @ \cup {[topic |-> topic, answer |-> Support(info, topic)]}]
    /\ UNCHANGED <<wireIn, readPos, header, tokenSize, fbResult, returned, cert, ntf,
                   apnsExpiration, varsMain, varsBuffer, varsFrame, varsToken, varsPersist, varsPool>>

\* request with "0" for every Expiration that is not after time.Now()
Notification_request_NotAfter ==
    /\ ~ntf.now.zero
    /\ ~apnsExpiration.built
    /\ apnsExpiration' =
            IF ntf.Expiration.zero THEN [built |-> TRUE, set |-> FALSE, value |-> <<>>]
            ELSE IF \/ ntf.Expiration.unix > ntf.now.unix
                    \/ /\ ntf.Expiration.unix = ntf.now.unix
                       /\ ntf.Expiration.nsec > ntf.now.nsec
                 THEN [built |-> TRUE, set |-> TRUE, value |-> FormatInt(ntf.Expiration.unix)]
                 ELSE [built |-> TRUE, set |-> TRUE, value |-> <<"0">>]
    /\ UNCHANGED <<wireIn, readPos, header, tokenSize, fbResult, returned, cert, info, ntf,
                   varsMain, varsBuffer, varsFrame, varsToken, varsPersist, varsPool>>

\* notification.go 179-185: no header for a zero Expiration; else "0" when
\* Expiration.Before(time.Now()), else FormatInt(Expiration.Unix(), 10)
Notification_request ==
    /\ ~ntf.now.zero
    /\ ~apnsExpiration.built
    /\ apnsExpiration' =
            IF ntf.Expiration.zero THEN [built |-> TRUE, set |-> FALSE, value |-> <<>>]
            ELSE IF ~(\/ ntf.Expiration.unix < ntf.now.unix
                      \/ /\ ntf.Expiration.unix = ntf.now.unix
                         /\ ntf.Expiration.nsec < ntf.now.nsec)
                 THEN [built |-> TRUE, set |-> TRUE, value |-> FormatInt(ntf.Expiration.unix)]
                 ELSE [built |-> TRUE, set |-> TRUE, value |-> <<"0">>]
    /\ UNCHANGED <<wireIn, readPos, header, tokenSize, fbResult, returned, cert, info, ntf,
                   varsMain, varsBuffer, varsFrame, varsToken, varsPersist, varsPool>>

CallsNext ==
    \/ Feedback_ReadHeader
    \/ Feedback_ReadToken
    \/ GetCertificateInfo
    \/ \E topic \in {"a", "a.voip", "b"} : CertificateInfo_Support(topic)
    \/ Notification_request

----------------------------------------------------------------------------
(* Specifications *)

SpecDial == DialInit /\ [][DialNext]_vars

SpecConn == ConnInit /\ [][ConnNext]_vars

SpecClient == ClientInit /\ [][ClientNext]_vars

SpecEngine == EngineInit /\ [][EngineNext]_vars

SpecHandover == EngineInit /\ [][HandoverNext]_vars

SpecFrame == FrameInit /\ [][FrameNext]_vars

SpecToken == TokenInit /\ [][TokenNext]_vars

SpecPersist == PersistInit /\ [][PersistNext]_vars

SpecCalls == CallsInit /\ [][CallsNext]_vars

\* the scheduler runs every goroutine that can take a step, and the reader of
\* responses keeps receiving
SpecPoolFair ==
    /\ PoolInit
    /\ [][PoolNext]_vars
    /\ \A w \in Workers : WF_vars(Worker_Push(w))
    /\ \A w \in Workers : WF_vars(Worker_Respond(w))
    /\ \A w \in Workers : WF_vars(Worker_Exit(w))
    /\ WF_vars(\E w \in Workers : Push_Send(w))
    /\ WF_vars(Push_SendClosed)

----------------------------------------------------------------------------
(* Properties of the dial loops (SpecDial) *)

\* C8: the wait before the n-th consecutive retry of a reconnect loop is
\* min(n * 10 s, 30 min), whatever the kinds of the failures before it.
\* Conn.reconnect does not grow its delay after an io.EOF failure.
C8_NthWaitIsNSteps ==
    dialPc = "sleep" =>
        startDuration = Min(dialFails * DurationReconnect, ThirtyMinutes)

----------------------------------------------------------------------------
(* Properties of the earlier Client (SpecClient) *)

\* C4: once every Send call has returned, the queue empties: with no timer
\* armed and no send() running, nothing is left waiting in the queue.
\* A Send that fails stops the armed timer, and a reader's ResendFromId starts
\* no send(): both leave notifications in the queue with nothing to send them.
C4_QuiescentQueueEmpty ==
    (/\ timer # "armed"
     /\ \A s \in ClientSenders : pc[s] = "idle"
     /\ \A r \in Readers : pc[r] \in {"none", "read", "exit", "exitTimeout"})
        => queue = <<>>

\* C7: a reader clears isConnected (and closes client.conn) after its Read
\* returned; on a timeout it then returns without calling Connect and stays
\* returned; a stream is installed only by a task in Connect, and send() goes
\* on to connect only when the queue holds something to send.
C7_TimeoutNoRedial ==
    [][/\ \A r \in Readers :
            /\ (pc[r] = "close" /\ pc'[r] # "close") => ~isConnected'
            /\ (pc[r] = "switch" /\ pc'[r] # "switch" /\ rerr[r].kind = "timeout") =>
                    /\ pc'[r] = "exitTimeout"
                    /\ UNCHANGED <<tlsConn, nStreams, isConnected, queue, cache>>
            /\ pc[r] = "exitTimeout" => pc'[r] = "exitTimeout"
       /\ \A s \in ClientSenders :
            (pc[s] = "start" /\ pc'[s] = "loop") => queue # <<>>
       /\ tlsConn' # tlsConn =>
            \E p \in ClientTasks :
                /\ pc[p] = "dial"
                /\ pc'[p] # "dial"]_vars

\* a reader returned on a timeout, and a later send() dialled the stream that
\* is installed now and wrote to it
C7_SenderRedialsAfterTimeout ==
    \E r \in Readers :
        /\ pc[r] = "exitTimeout"
        /\ r \in streamClosed
        /\ tlsConn > r
        /\ isConnected
        /\ tlsConn \notin streamClosed
        /\ Len(cache) = 2
        /\ \A q \in Readers : q # r /\ q # tlsConn => pc[q] = "none"

----------------------------------------------------------------------------
(* Properties of Conn / apnsConn and its client (SpecConn) *)

\* C2: a reader that received an error frame with id = 0 re-enqueues nothing
\* from the cache and calls Connect; the head of Connect closes the installed
\* stream and clears isConnected, and the dial follows unless the connection
\* is closed.
C2_IdZeroNoReplayReconnect ==
    [][\A r \in Readers :
        /\ (pc[r] = "switch" /\ pc'[r] # "switch" /\ rerr[r].kind = "apns"
                /\ rerr[r].id = 0) =>
                    /\ queue' = queue
                    /\ cache' = cache
                    /\ pc'[r] = "connect"
        /\ (pc[r] = "connect" /\ pc'[r] # "connect") =>
                    /\ tlsConn # 0 => tlsConn \in streamClosed'
                    /\ ~isConnected'
                    /\ pc'[r] \in {"dial", "exit"}
                    /\ pc'[r] = "exit" => isClosed]_vars

\* a reader holding an error frame with id = 0 has left the switch for
\* Connect, with a written notification in the cache and nothing put back
\* into the queue
C2_ShutdownFrameHandled ==
    \E r \in Readers :
        /\ pc[r] = "connect"
        /\ rerr[r].kind = "apns"
        /\ rerr[r].id = 0
        /\ cache # <<>>
        /\ queue = <<>>
        /\ counter = Len(cache)

\* C5: once Close() has been called the connection is closed for good and is
\* never connected again.
C5_ClosedIsTerminal ==
    closeCalled => (isClosed /\ ~isConnected)

----------------------------------------------------------------------------
(* Properties of the channel-based Conn (SpecEngine) *)

\* C1: when the reader handles an error frame with status > 0 and id = k,
\* k # 0, every message of the cache with an id above k is handed to the
\* resend goroutine, the only way it is framed and written again, and the
\* message k is not.  handleError starts the resend at a position: behind the
\* first entry with id k, or behind the first entry when no entry has id k.
C1_ResendsAllAboveK ==
    [][\A r \in Readers :
        (pc[r] = "read" /\ rerr'[r].kind = "apns" /\ rerr'[r].status > 0) =>
            LET k == rerr'[r].id
                above == SelectSeq(cache, LAMBDA m : m.id > k)
            IN  /\ above # <<>> =>
                        \E g \in sendMessageChan' :
                            /\ ~g.fresh
                            /\ Ids(above) \subseteq Ids(g.msgs)
                /\ \A g \in sendMessageChan' \ sendMessageChan :
                        k \notin Ids(g.msgs)]_vars

\* C3: waitLoop gives out the ids 1, 2, ... one by one; once every message of
\* every Send call is handed over, each of the N*M messages has got one, so
\* the ids are exactly 1..N*M, and the cache holds at most N*M entries.
\* waitLoop skips a message for which IsExpired() is true, which it is for an
\* expiration that lies ahead: such a message never gets an id.
C3_IdsAreOneToTotal ==
    (sendMessageChan = {} /\ held = <<>> /\ fault = "none") =>
        /\ counter = sendLog.total
        /\ Len(cache) <= sendLog.total

\* C10: Send validates the payload once, before anything is enqueued: nil or
\* empty gives ErrPayloadEmpty, JSON above maxPayloadSize bytes gives
\* ErrPayloadTooLarge, JSON of exactly maxPayloadSize bytes is accepted; a
\* Send that returns an error has put no message on the channel and used no id.
C10_SendValidatesFirst ==
    [][sendLog'.n = sendLog.n + 1 =>
        LET payload == sendLog'.payload
            result == sendLog'.result
        IN  /\ payload.kind \in {"nil", "empty"} => result = "ErrPayloadEmpty"
            /\ (payload.kind = "map" /\ payload.len > maxPayloadSize) =>
                    result = "ErrPayloadTooLarge"
            /\ (payload.kind = "map" /\ payload.len = maxPayloadSize) =>
                    result = "nil"
            /\ result # "nil" =>
                    /\ sendLog'.enq = 0
                    /\ sendLog'.total = sendLog.total
                    /\ sendMessageChan' = sendMessageChan
                    /\ counter' = counter
            /\ result = "nil" =>
                    sendLog'.enq \in 1..2]_vars

\* a Send was accepted and its message has got id 1; the next Send, with a
\* payload one byte above the limit, returned ErrPayloadTooLarge and left the
\* channel and the counter alone
C10_RejectedAboveLimit ==
    /\ sendLog.n = 2
    /\ sendLog.payload = [kind |-> "map", len |-> maxPayloadSize + 1]
    /\ sendLog.result = "ErrPayloadTooLarge"
    /\ sendLog.total = 1
    /\ counter = 1
    /\ sendMessageChan = {}

\* C11: a Send call that is accepted puts exactly one message on the channel
\* per token of 32 bytes, in the order of the tokens, and skips any other
\* token without an error; the messages of a call are written to the stream
\* in that order: when one is written for the first time, none that follows
\* it in the call was written before it or stands before it in the buffer.
C11_OnePerTokenInOrder ==
    [][/\ (sendLog'.n = sendLog.n + 1 /\ sendLog'.result = "nil") =>
            LET tokens == sendLog'.tokens
                valid == {i \in 1..Len(tokens) : tokens[i] = "t"}
            IN  /\ sendLog'.enq = Cardinality(valid)
                /\ \E g \in sendMessageChan' \ sendMessageChan :
                        /\ Len(g.msgs) = Cardinality(valid)
                        /\ \A j \in 1..Len(g.msgs) :
                                g.msgs[j].src = <<sendLog'.n, j>> /\ g.msgs[j].id = 0
       /\ wire' # wire =>
            \A p \in 1..Len(frameBuffer) :
                LET m == frameBuffer[p]
                    first == /\ m.id \notin {w.id : w \in wire}
                             /\ \A q \in 1..(p - 1) : frameBuffer[q].id # m.id
                IN  first =>
                        /\ \A w \in wire :
                                w.src[1] = m.src[1] => w.src[2] < m.src[2]
                        /\ \A q \in 1..(p - 1) :
                                frameBuffer[q].src[1] = m.src[1] =>
                                    frameBuffer[q].src[2] < m.src[2]]_vars

\* a Send with two tokens of 32 bytes was accepted, and its two messages are
\* written, the one for the first token with the lower id
C11_BothWrittenInOrder ==
    /\ sendLog.tokens = <<"t", "t">>
    /\ sendLog.enq = 2
    /\ \E a \in wire, b \in wire :
            /\ a.src = <<sendLog.n, 1>>
            /\ b.src = <<sendLog.n, 2>>
            /\ a.id < b.id

\* C12: the messages of one Send call stand at consecutive places of the send
\* order: the message for the next token of the call gets the next id.
\* Conn.Send hands its messages to waitLoop one by one over the channel, so a
\* message of another call running at the same time can come between them.
C12_CallFramesAreConsecutive ==
    \A a \in wire \cup Frames(frameBuffer), b \in wire \cup Frames(frameBuffer) :
        (a.src[1] = b.src[1] /\ b.src[2] = a.src[2] + 1) => b.id = a.id + 1

\* C13: after the reader resent messages of the cache on an error frame, the
\* replayed messages go out before any message that had not been written yet,
\* in the order of their ids: in the frame buffer no message stands behind one
\* with a higher id.  The resend goroutine feeds the same channel as the Send
\* calls, so waitLoop can frame a new message before a replayed one.
C13_ReplayKeepsIdOrder ==
    (\E r \in Readers : rerr[r].kind = "apns" /\ rerr[r].status > 0) =>
        \A p \in 1..Len(frameBuffer), q \in 1..Len(frameBuffer) :
            p < q => frameBuffer[p].id <= frameBuffer[q].id

\* C14: waitLoop skips a message only when its expiration is set and lies in
\* the past.  A step that takes a message from the channel and neither frames
\* nor holds it is a skip.  IsExpired compares the wrong way round: it is true
\* while the expiration lies ahead, and false once it has passed.
C14_SkipsOnlyExpired ==
    [][(/\ sendMessageChan' # sendMessageChan
        /\ UNCHANGED <<frameBuffer, cacheBuffer, held, sendLog, rerr>>) =>
            \A g \in sendMessageChan \ sendMessageChan' :
                Head(g.msgs).exp # 0 /\ Head(g.msgs).exp <= now]_vars

----------------------------------------------------------------------------
(* Properties of the byte form (SpecFrame) *)

\* C15: the bytes of a framed message are self-consistent and round-trip:
\* command 2, a frame length equal to the number of item bytes that follow,
\* items whose declared lengths equal the value bytes written, and the
\* fields read back equal to those of the message.  Byte declares four
\* bytes for the priority item and writes one.
C15_FrameRoundTrips ==
    framed # <<>> =>
        LET body == SubSeq(framed, 6, Len(framed))
            items == Items(body)
        IN  /\ framed[1] = 2
            /\ FromBigEndian(SubSeq(framed, 2, 5)) = Len(body)
            /\ \A i \in 1..Len(items) : items[i].item # 0
            /\ ItemValue(items, 1, <<>>) = smsg.token
            /\ ItemValue(items, 2, <<>>) = smsg.payload
            /\ ItemValue(items, 3, BigEndian(0, 4)) = smsg.id
            /\ FromBigEndian(ItemValue(items, 4, <<>>)) = smsg.expiration
            /\ FromBigEndian(ItemValue(items, 5, <<>>)) = smsg.priority

----------------------------------------------------------------------------
(* Properties of ProviderToken (SpecToken) *)

\* C16: JWT() returns the token it found cached, and leaves the cache
\* alone, while the token's age is at most JWTLifeTime; once the age exceeds
\* JWTLifeTime, or with nothing cached, it goes on to createJWT, which issues
\* a token at the present instant, caches it with that issue time and
\* returns it.  No token is returned from the cache at an age above
\* JWTLifeTime.
C16_CachedWhileFresh ==
    [][\A c \in Callers :
        /\ (calls[c].pc = "check" /\ calls'[c].pc # "check") =>
              IF calls[c].jwt # NoJWT /\ wall - calls[c].created <= JWTLifeTime
                  THEN /\ calls'[c].pc = "idle"
                       /\ calls'[c].result = [jwt |-> calls[c].jwt, err |-> "nil"]
                       /\ pt' = pt
                  ELSE /\ calls'[c].pc = "create"
                       /\ calls'[c].result = calls[c].result
        /\ (calls[c].pc = "create" /\ calls'[c].pc = "store") =>
              calls'[c].jwt.iat = wall /\ calls'[c].created = wall
        /\ (calls[c].pc = "store" /\ calls'[c].pc = "idle") =>
              /\ calls'[c].result = [jwt |-> calls[c].jwt, err |-> "nil"]
              /\ pt'.jwt = calls[c].jwt
              /\ pt'.created = calls[c].jwt.iat]_vars

\* a caller found a token aged exactly JWTLifeTime and returned it, and a
\* caller has replaced one that was older
C16_ReturnedAtLifeTime ==
    \E c \in Callers, d \in Callers :
        /\ calls[c].pc = "idle"
        /\ calls[c].result.jwt = calls[c].jwt
        /\ calls[c].result.jwt # NoJWT
        /\ calls[c].result.jwt.sig # c
        /\ wall - calls[c].created = JWTLifeTime
        /\ calls[d].pc = "idle"
        /\ calls[d].result.jwt # NoJWT
        /\ calls[d].result.jwt = pt.jwt
        /\ calls[d].result.jwt.sig = d
        /\ calls[d].result.jwt.iat > JWTLifeTime

\* C17: the cached jwt and created always come from one generation, empty
\* together or with created equal to the jwt's issue time; so does the
\* pair a caller has read, and what a call returns is a whole token of one
\* generation (or the error of a missing key).
C17_PairOfOneGeneration ==
    /\ pt.jwt = NoJWT => pt.created = 0
    /\ pt.jwt # NoJWT => pt.jwt.iat = pt.created /\ pt.jwt.sig \in Callers
    /\ \A c \in Callers :
        /\ calls[c].jwt # NoJWT => calls[c].jwt.iat = calls[c].created
        /\ calls[c].pc = "check" /\ calls[c].jwt = NoJWT => calls[c].created = 0
        /\ calls[c].result.err = "nil" =>
              /\ calls[c].result.jwt.iat \in Instants
              /\ calls[c].result.jwt.sig \in Callers
        /\ calls[c].result.err # "nil" => calls[c].result.jwt = NoJWT

\* while one caller is storing a new generation, another has read the
\* older one and a third party holds a returned token
C17_ReadDuringRefresh ==
    \E c \in Callers, d \in Callers :
        /\ calls[c].pc = "store"
        /\ calls[d].pc = "check"
        /\ calls[d].jwt # NoJWT
        /\ calls[d].jwt # calls[c].jwt
        /\ pt.jwt = calls[d].jwt

\* C18: a ProviderToken read back from what WritePEM or MarshalJSON wrote
\* has the team ID and the key ID of the original.  Both readers hand the
\* stored key ID to NewProviderToken as the team ID and the team ID as the
\* key ID.
C18_IdsRoundTrip ==
    restored.err = "nil" =>
        restored.teamID = original.teamID /\ restored.keyID = original.keyID

----------------------------------------------------------------------------
(* Properties of ClientsPool (SpecPoolFair) *)

\* C19: with a responses channel, every (notification, token) pair handed
\* to Push is at any moment in exactly one place: still to be sent by Push,
\* with one worker, or answered by one Response; a Response carries the
\* pair's token and the id and error c.Push returned to the worker; and
\* every pair is answered in the end, unless a panic ends the process.
C19_OneResponsePerPair ==
    /\ [](pool.panic = "none" /\ ~pool.nilResponses =>
            /\ \A p \in accepted :
                 Cardinality({i \in 1..Len(pushing.rest) : pushing.rest[i] = p})
                   + Cardinality({w \in Workers : workers[w].pc \in {"push", "respond"}
                                                    /\ workers[w].n = p})
                   + Cardinality({i \in 1..Len(responses) :
                                     responses[i].pair = <<p.call, p.idx>>}) = 1
            /\ \A i \in 1..Len(responses) :
                 \E p \in accepted :
                     /\ responses[i].pair = <<p.call, p.idx>>
                     /\ responses[i].Token = p.token
                     /\ [id |-> responses[i].ID, err |-> responses[i].Error] \in Client_Push(p))
    /\ [][\A w \in Workers :
            (workers[w].pc = "respond" /\ workers'[w].pc # "respond" /\ pool'.panic = "none") =>
                responses' = Append(responses,
                                    [pair |-> <<workers[w].n.call, workers[w].n.idx>>,
                                     Token |-> workers[w].n.token,
                                     ID |-> workers[w].id,
                                     Error |-> workers[w].err])]_vars
    /\ \A call \in 1..MaxPushes, idx \in 1..3 :
            (~pool.nilResponses /\ \E p \in accepted : p.call = call /\ p.idx = idx)
                ~> (\/ pool.panic # "none"
                    \/ \E i \in 1..Len(responses) : responses[i].pair = <<call, idx>>)

\* the three pairs of one call are all answered, by both workers' doing,
\* one of them with an error
C19_AllThreeAnswered ==
    /\ pool.panic = "none"
    /\ ~pool.closed
    /\ Len(responses) = 3
    /\ \A i \in 1..3 : responses[i].pair[1] = 1
    /\ responses[1].pair = <<1, 2>>
    /\ \E i \in 1..3 : responses[i].Error = "BadDeviceToken"
    /\ \E i \in 1..3 : responses[i].Error = "nil"
    /\ pushing.rest = <<>>

\* C20: once the channel is closed no worker receives a notification: a
\* worker in its range can only end, a worker with a push in hand keeps it
\* until it is answered, what Push still had to send reaches no worker, and
\* every worker ends (a panic ends them all).
C20_ClosedPoolDrains ==
    /\ [][(pool.closed /\ pool.panic = "none" /\ pool'.panic = "none") =>
            /\ \A w \in Workers :
                 /\ workers'[w].pc = "push" => workers[w] = workers'[w]
                 /\ workers[w].pc = "range" => workers'[w].pc \in {"range", "done"}
            /\ Len(pushing'.rest) >= Len(pushing.rest)]_vars
    /\ pool.closed ~> \A w \in Workers : workers[w].pc = "done"

\* the channel is closed while one worker has a push in hand and the other
\* has ended
C20_ClosedWhilePushing ==
    /\ pool.closed
    /\ pool.panic = "none"
    /\ \E w \in Workers, v \in Workers :
            workers[w].pc = "push" /\ workers[v].pc = "done"

----------------------------------------------------------------------------
(* Properties of the replay after an error frame (SpecHandover) *)

\* C24: when the reader handles an error frame with an id k, what it hands
\* to the resend goroutine is exactly the cache entries with id >= k (> k
\* when the status is above 0), in cache order, whether or not an entry has
\* the id k, and the cache is emptied.  handleError picks the entries by
\* position: from the first entry when none has the id k.
C24_ResendIsExactlyFromId ==
    [][\A r \in Readers :
        (pc[r] = "read" /\ rerr'[r].kind = "apns" /\ rerr'[r].id > 0) =>
            LET k == rerr'[r].id
                want == SelectSeq(cache, LAMBDA m :
                            IF rerr'[r].status > 0 THEN m.id > k ELSE m.id >= k)
            IN  /\ cache' = <<>>
                /\ sendMessageChan' \ sendMessageChan =
                        IF want = <<>> THEN {} ELSE {[fresh |-> FALSE, msgs |-> want]}]_vars

----------------------------------------------------------------------------
(* Properties of the reader once the connection is closed (SpecConn) *)

\* C25: once Close() has returned, no reader resends from an id and no
\* reader starts to dial.  The reader tests isClosed once, before the switch
\* over the error: a Close that comes after the test does not stop it.
C25_NoReplayNoDialAfterClose ==
    [][closeCalled =>
        \A r \in Readers :
            /\ (pc[r] = "switch" /\ pc'[r] # "switch") => (queue' = queue /\ cache' = cache)
            /\ pc'[r] = "dial" => pc[r] = "dial"]_vars


\* C26: a reader task and a sender task of one client are never in the dial
\* loop (dialling or asleep between two attempts) at the same time, and the
\* streams that were dialled and not closed are at most one.
C26_OneDialOneStream ==
    /\ \A r \in Readers, s \in ClientSenders :
            ~(pc[r] \in {"dial", "sleep"} /\ pc[s] \in {"dial", "sleep"})
    /\ Cardinality((1..nStreams) \ streamClosed) <= 1

\* C27: at most one execution of Client.send is under way at any time, so no
\* two tasks are at the write to the stream together.
C27_OneSendTask ==
    Cardinality({s \in ClientSenders : pc[s] # "idle"}) <= 1

\* C30: every message in the replay cache has had its frame written to a
\* stream, and a flush that ends well leaves cacheBuffer empty with its
\* messages at the end of the cache, in their order.
C30_CachedAfterWrite ==
    [][/\ \A i \in 1..Len(cache') : cache'[i].id \in {w.id : w \in wire'}
       /\ \A f \in Flushers :
            (pc[f] = "ok" /\ pc'[f] = "idle") =>
                (cacheBuffer' = <<>> /\ cache' = cache \o cacheBuffer)]_vars

\* C28: a message that has passed the id assignment has an id other than 0,
\* and its frame carries the id item (item 3).
C28_NeverAssignsZero ==
    /\ step \in {"byte", "full", "frame", "done"} => smsg.id # BigEndian(0, 4)
    /\ framed # <<>> =>
            LET items == Items(SubSeq(framed, 6, Len(framed)))
            IN  \E i \in 1..Len(items) : items[i].item = 3

\* C29: the frame buffer never holds more than tcpFrameMax bytes.
C29_BufferWithinSize ==
    bufLen <= tcpFrameMax

----------------------------------------------------------------------------
(* Properties of the single calls (SpecCalls) *)

\* C21: when Feedback returns with a nil error, its result is the records
\* of the stream, in their order; when it returns with an error, that is the
\* error of the read and the result is the records read until then, a prefix
\* of the records of the stream.
C21_ReturnsRecordsRead ==
    returned.done =>
        LET sent == Records(wireIn)
        IN  /\ returned.err \in {"nil", "reset"}
            /\ returned.err = "nil" => fbResult = sent
            /\ Len(fbResult) <= Len(sent)
            /\ fbResult = SubSeq(sent, 1, Len(fbResult))

\* C22: every answer of Support is true exactly when the topic is the bundle
\* id and there are no topics, or the topic is one of the topics; for the
\* info that GetCertificateInfo returned the answer for its bundle id is true,
\* and the answer for a topic that is neither is false.
C22_SupportIsMembership ==
    \A q \in info.asked :
        LET listed == \E k \in DOMAIN info.Topics : info.Topics[k] = q.topic
        IN  /\ q.answer <=> ((info.Topics = <<>> /\ q.topic = info.BundleID) \/ listed)
            /\ q.topic = info.BundleID => q.answer
            /\ (q.topic # info.BundleID /\ ~listed) => ~q.answer

C22_AskedBothWays ==
    /\ info.state = "returned"
    /\ info.Topics # <<>>
    /\ \E q \in info.asked : q.topic = info.BundleID /\ q.answer
    /\ \E q \in info.asked : ~q.answer

\* C23: the request has no apns-expiration header when Expiration is the
\* zero time; the header is "0" when Expiration is before the current time;
\* else it is the decimal numeral, with no sign and no leading zero, of the
\* Unix seconds of Expiration.
C23_ExpirationHeader ==
    apnsExpiration.built =>
        LET exp == ntf.Expiration
            v == apnsExpiration.value
            digits == <<"0", "1", "2", "3", "4", "5", "6", "7", "8", "9">>
            RECURSIVE Value(_)
            Value(d) == IF d = <<>> THEN 0
                        ELSE 10 * Value(SubSeq(d, 1, Len(d) - 1))
                                + (CHOOSE k \in 0..9 : digits[k + 1] = d[Len(d)])
        IN  IF exp.zero THEN ~apnsExpiration.set
            ELSE IF exp.unix < ntf.now.unix
                        \/ (exp.unix = ntf.now.unix /\ exp.nsec < ntf.now.nsec)
            THEN apnsExpiration.set /\ v = <<"0">>
            ELSE /\ apnsExpiration.set
                 /\ v # <<>>
                 /\ \A i \in 1..Len(v) : \E k \in 1..10 : digits[k] = v[i]
                 /\ Len(v) > 1 => v[1] # "0"
                 /\ Value(v) = exp.unix

C23_HeaderAtNow ==
    /\ apnsExpiration.built
    /\ ~ntf.Expiration.zero
    /\ ntf.Expiration = ntf.now
    /\ Len(apnsExpiration.value) = 10

-----------------------------------------------------------------------------
(* The standalone messageCache and frameBuffer (SpecBuffer)                 *)
(*                                                                         *)
(* Two set-ups.  In the first a messageCache made by newMessageCache with   *)
(* d = CachePeriod > 0 is filled by Add, pruned by its cleaner goroutine     *)
(* and moved by MoveTo.  In the second, goroutines call Add of one           *)
(* frameBuffer with Delay > 0 and Size = FrameSize; fb.Cache is the cache    *)
(* of line 63 (d = 0, no cleaner).                                           *)

BufferInit ==
    /\ \/ /\ cleaner = "waiting"
          /\ adders = <<>>
       \/ /\ cleaner = "none"
          /\ adders = [g \in 1..MaxAdders |-> [pc |-> "idle", msg |-> 0, buf |-> 0, len |-> 0]]
    /\ list = <<>>
    /\ destination = <<>>
    /\ moving = "idle"
    /\ clock = 0
    /\ nAdded = 0
    /\ bufs = <<>>
    /\ free = {}
    /\ fbmu = 0
    /\ fbLen = 0
    /\ wrote = <<>>
    /\ DialIdle
    /\ ConnIdle
    /\ TimerIdle
    /\ EngineIdle
    /\ FrameIdle
    /\ TokenIdle
    /\ PersistIdle
    /\ PoolIdle
    /\ CallsIdle

\* messageCache.Add (messageCache.go:53-61) with one message: it is stamped
\* with time.Now() and appended under cache.mu
messageCache_Add ==
    /\ cleaner # "none"
    /\ nAdded < MaxAdds
    /\ nAdded' = nAdded + 1
    /\ list' = Append(list, [id |-> nAdded + 1, created |-> clock])
    /\ UNCHANGED <<destination, cleaner, moving, clock, bufs, free, adders, fbmu, fbLen,
                   wrote, varsMain, varsFrame, varsToken, varsPersist, varsPool, varsCalls>>

\* Time passes; time.NewTicker(d) of newMessageCache (messageCache.go:25) has
\* a tick every d.  A tick that finds the cleaner busy or gone is dropped.
Buffer_Clock ==
    /\ cleaner # "none"
    /\ clock < MaxTime
    /\ clock' = clock + 1
    /\ cleaner' = IF cleaner = "waiting" /\ clock' % CachePeriod = 0 THEN "tick" ELSE cleaner
    /\ UNCHANGED <<list, destination, moving, nAdded, bufs, free, adders, fbmu, fbLen,
                   wrote, varsMain, varsFrame, varsToken, varsPersist, varsPool, varsCalls>>

\* The body of the cleaner's loop (messageCache.go:26-44): it returns when
\* the cache is empty; else it looks for the first message created after
\* lifeTime and, when there is one, cuts the list to start with it.
cleaner_Tick ==
    /\ cleaner = "tick"
    /\ IF Len(list) = 0
         THEN /\ cleaner' = "returned"
              /\ list' = list
         ELSE LET lifeTime == clock - CachePeriod
                  after == {i \in 1..Len(list) : list[i].created > lifeTime}
              IN  /\ cleaner' = "waiting"
                  /\ list' = IF after = {} THEN list
                             ELSE SubSeq(list,
                                         CHOOSE i \in after : \A j \in after : i <= j,
                                         Len(list))
    /\ UNCHANGED <<destination, moving, clock, nAdded, bufs, free, adders, fbmu, fbLen,
                   wrote, varsMain, varsFrame, varsToken, varsPersist, varsPool, varsCalls>>

\* MoveTo, its first line (messageCache.go:70): destination.Add(cache.list...).
\* Add stamps the messages, which the two lists share, and appends them.
MoveTo_Add ==
    /\ cleaner # "none"
    /\ moving = "idle"
    /\ moving' = "clear"
    /\ list' = [i \in 1..Len(list) |-> [list[i] EXCEPT !.created = clock]]
    /\ destination' = destination \o list'
    /\ UNCHANGED <<cleaner, clock, nAdded, bufs, free, adders, fbmu, fbLen,
                   wrote, varsMain, varsFrame, varsToken, varsPersist, varsPool, varsCalls>>

\* MoveTo, its second line: cache.Clear() (messageCache.go:71, 75-79)
MoveTo_Clear ==
    /\ moving = "clear"
    /\ moving' = "done"
    /\ list' = <<>>
    /\ UNCHANGED <<destination, cleaner, clock, nAdded, bufs, free, adders, fbmu, fbLen,
                   wrote, varsMain, varsFrame, varsToken, varsPersist, varsPool, varsCalls>>

\* frameBuffer.Add with one message without an id (frameBuffer.go:34-43):
\* goroutine g takes fb.mu and gives the message the next id.  The messages
\* of goroutine g have a token of bytes g and a payload of g bytes.
Add_Lock(g) ==
    /\ adders[g].pc = "idle"
    /\ nAdded < MaxAdds
    /\ fbmu = 0
    /\ fbmu' = g
    /\ nAdded' = nAdded + 1
    /\ adders' = [adders EXCEPT ![g].pc = "byte",
                                ![g].msg = [id |-> BigEndian(nAdded + 1, 4),
                                            token |-> [i \in 1..32 |-> g],
                                            payload |-> [i \in 1..g |-> 96 + g],
                                            expiration |-> 0,
                                            priority |-> 0]]
    /\ UNCHANGED <<list, destination, cleaner, moving, clock, bufs, free, fbLen,
                   wrote, varsMain, varsFrame, varsToken, varsPersist, varsPool, varsCalls>>

\* data := msg.Byte() and the test of the size (frameBuffer.go:44-46).
\* getBuffer (pool.go:121-129) takes a buffer of the pool and resets it, or
\* makes one when pool.Get gives nil, which it may at any time.  Byte
\* (message.go:120-152) writes the message at the start of the buffer's
\* array (it has room: a bytes.Buffer starts with 64 bytes), puts the buffer
\* back into the pool and returns a slice of the array, not a copy.
sendMessage_Byte(g) ==
    /\ adders[g].pc = "byte"
    /\ \E b \in free \cup {Len(bufs) + 1} :
        LET bytes == Byte(adders[g].msg)
            old == IF b \in free THEN bufs[b] ELSE <<>>
            arr == bytes \o SubSeq(old, Len(bytes) + 1, Len(old))
            full == Len(bytes) + fbLen + 5 > FrameSize
        IN  /\ bufs' = IF b \in free THEN [bufs EXCEPT ![b] = arr] ELSE Append(bufs, arr)
            /\ free' = free \cup {b}
            /\ adders' = [adders EXCEPT ![g].buf = b, ![g].len = Len(bytes),
                                        ![g].pc = IF full THEN "send" ELSE "write"]
            /\ fbmu' = IF full THEN 0 ELSE fbmu
    /\ UNCHANGED <<list, destination, cleaner, moving, clock, nAdded, fbLen,
                   wrote, varsMain, varsFrame, varsToken, varsPersist, varsPool, varsCalls>>

\* fb.Send() of line 47, with fb.mu released: it writes the buffer out by
\* WriteTo (frameBuffer.go:84-89), which takes fb.mu for the time of the write
Add_Send(g) ==
    /\ adders[g].pc = "send"
    /\ fbmu = 0
    /\ fbLen' = 0
    /\ adders' = [adders EXCEPT ![g].pc = "lock"]
    /\ UNCHANGED <<list, destination, cleaner, moving, clock, nAdded, bufs, free, fbmu,
                   wrote, varsMain, varsFrame, varsToken, varsPersist, varsPool, varsCalls>>

\* fb.mu.Lock() of line 48
Add_Relock(g) ==
    /\ adders[g].pc = "lock"
    /\ fbmu = 0
    /\ fbmu' = g
    /\ adders' = [adders EXCEPT ![g].pc = "write"]
    /\ UNCHANGED <<list, destination, cleaner, moving, clock, nAdded, bufs, free, fbLen,
                   wrote, varsMain, varsFrame, varsToken, varsPersist, varsPool, varsCalls>>

\* The header of 5 bytes and fb.buf.Write(data), which copies what the array
\* behind data holds now, then fb.Cache.Add(msg), and with Delay > 0 the
\* timer and the Unlock (frameBuffer.go:50-80)
Add_Write(g) ==
    /\ adders[g].pc = "write"
    /\ wrote' = Append(wrote, SubSeq(bufs[adders[g].buf], 1, adders[g].len))
    /\ fbLen' = fbLen + 5 + adders[g].len
    /\ list' = Append(list, [id |-> adders[g].msg.id, created |-> clock])
    /\ fbmu' = 0
    /\ adders' = [adders EXCEPT ![g].pc = "idle"]
    /\ UNCHANGED <<destination, cleaner, moving, clock, nAdded, bufs, free,
                   varsMain, varsFrame, varsToken, varsPersist, varsPool, varsCalls>>

BufferNext ==
    \/ messageCache_Add
    \/ Buffer_Clock
    \/ cleaner_Tick
    \/ MoveTo_Add
    \/ MoveTo_Clear
    \/ \E g \in DOMAIN adders : Add_Lock(g)
    \/ \E g \in DOMAIN adders : sendMessage_Byte(g)
    \/ \E g \in DOMAIN adders : Add_Send(g)
    \/ \E g \in DOMAIN adders : Add_Relock(g)
    \/ \E g \in DOMAIN adders : Add_Write(g)

SpecBuffer == BufferInit /\ [][BufferNext]_vars

----------------------------------------------------------------------------
(* Further properties of the channel-based Conn (SpecEngine, SpecHandover) *)

\* C31: the ids of the replay cache are strictly increasing along the cache:
\* in order and with no duplicate.
C31_CacheIdsIncrease ==
    \A i, j \in 1..Len(cache) : i < j => cache[i].id < cache[j].id

\* C33: between the steps of waitLoop and sendBuffer the connection mutex is
\* free, also after a cleanup tick that found the cache empty, and waitLoop
\* is never left waiting for it.
C33_MutexReleased ==
    mu = "free" /\ pc[WaitLoopTask] # "blocked"

\* C35: when sendBuffer hands the messages of cacheBuffer back after a failed
\* write, it hands each of them back once, appends none of them to the replay
\* cache, and leaves no frame of theirs in the frame buffer to be written as
\* well.
C35_FailedFlushHandsBackOnce ==
    [][\A f \in Flushers :
        (pc[f] = "resend" /\ pc'[f] = "idle") =>
            /\ sendMessageChan' = sendMessageChan \cup
                    (IF cacheBuffer = <<>> THEN {}
                     ELSE {[fresh |-> FALSE, msgs |-> cacheBuffer]})
            /\ cache' = cache
            /\ \A i \in 1..Len(cacheBuffer) : cacheBuffer[i].id \notin Ids(frameBuffer')]_vars

\* C37: handleError never faults on its slice of the cache: the index where
\* the resend starts is within the cache for every error frame with an id.
C37_ResendIndexInBounds ==
    fault # "slice bounds out of range"

----------------------------------------------------------------------------
(* Further properties of the timer Client (SpecClient) *)

\* C34: a Send that returns an error leaves a delay timer that was armed
\* before it armed.
C34_FailedSendKeepsTimer ==
    [][(sendLog'.n = sendLog.n + 1 /\ sendLog'.result = "error" /\ timer = "armed")
            => timer' = "armed"]_vars

\* C36: a reader closes no stream but the one it was started for, and it
\* marks the client as disconnected only while that stream is the installed
\* one.
C36_ReaderActsOnOwnStream ==
    [][\A r \in Readers :
        (pc[r] = "close" /\ pc'[r] = "switch") =>
            /\ streamClosed' \subseteq streamClosed \cup {r}
            /\ tlsConn # r => isConnected' = isConnected]_vars

----------------------------------------------------------------------------
(* Further properties of ProviderToken (SpecToken) *)

\* C39: a token that JWT() returns is signed with the key that was installed
\* when the call began, or with a later one: never with a key that had been
\* replaced before the call.
C39_NoTokenOfReplacedKey ==
    [][\A c \in Callers :
        (calls[c].pc # "idle" /\ calls'[c].pc = "idle" /\ calls'[c].result.err = "nil")
            => calls'[c].result.jwt.key >= calls[c].key]_vars

-----------------------------------------------------------------------------
(* Properties of the standalone messageCache and frameBuffer (SpecBuffer) *)

\* C32: a pruning tick leaves in the cache the entries created within the
\* last CachePeriod, in their order, and none that is older (an entry whose
\* age is the period exactly may stay or go), and the cleaner goes on
\* waiting for the next tick, also after a tick that found the cache empty.
C32_TickKeepsLiveWindow ==
    [][cleaner = "tick" /\ cleaner' # "tick" =>
        /\ list' \in {SelectSeq(list, LAMBDA e : e.created > clock - CachePeriod),
                      SelectSeq(list, LAMBDA e : e.created >= clock - CachePeriod)}
        /\ cleaner' = "waiting"]_vars

\* C38: when MoveTo ends, every message that was in the source cache, those
\* added while MoveTo ran included, is in the destination once, and the
\* source is empty.
C38_MoveToLosesNothing ==
    [][moving = "clear" /\ moving' = "done" =>
        /\ list' = <<>>
        /\ \A i \in 1..Len(list) :
            Cardinality({j \in 1..Len(destination') : destination'[j].id = list[i].id}) = 1]_vars

\* C40: the bytes that frameBuffer.Add copies into fb.buf are the bytes that
\* msg.Byte() returned for the message: no Byte() call of another Add, made
\* while this one had released fb.mu to flush, has changed them.
C40_ByteSliceStable ==
    \A g \in DOMAIN adders :
        adders[g].pc \in {"send", "lock", "write"} =>
            SubSeq(bufs[adders[g].buf], 1, adders[g].len) = Byte(adders[g].msg)

=============================================================================
